---- MODULE Spec2Model ----
(***************************************************************************)
(* A model of the mark-it scoring core: the confidence scorer of           *)
(* app/lib/confidence_scorer.py, the geometric grading of                  *)
(* app/lib/visual_marking.py and the command-line boundary of              *)
(* app/lib/python_integration.py.                                          *)
(*                                                                         *)
(* Text is a sequence of one-character strings; str.lower() and the        *)
(* substring test `in` are computed on those sequences.  Python floats are *)
(* modelled by exact rationals <<numerator, denominator>> in lowest terms  *)
(* with a positive denominator.                                            *)
(***************************************************************************)
EXTENDS Integers, Sequences, FiniteSets, TLC

VARIABLES
    callee,          \* the function called
    pc,              \* position of the call: "call", "returned" or "raised"
    student_answer,  \* argument student_answer
    mark_scheme,     \* argument mark_scheme: a sequence of Criterion records
    llm_feedback,    \* argument llm_feedback
    match_results,   \* the match_result computed for each criterion, in order
    returned,        \* <<>> or <<the value the call returned>>
    exception,       \* "" or the name of the exception the call raised
    confidence_scores,  \* argument confidence_scores of combine_confidence_scores
    weights,         \* argument weights: <<>> for None, else <<the list>>
    mode,            \* --mode of the command line, "" outside the boundary
    request,         \* what the mode function reads: input and environment
    stdout,          \* the objects printed as JSON, in order
    failure,         \* "" or the first exception raised inside the function
    marking_results, \* argument marking_results
    arg_expected_answer,   \* argument expected_answer
    embedding_similarity,  \* argument embedding_similarity
    arg_geometric_accuracy,  \* argument geometric_accuracy
    arg_detected_shape,    \* argument detected_shape
    arg_expected_shape,    \* argument expected_shape
    self_grid_spacing,     \* VisualMarker.grid_spacing
    arg_image,       \* what the image library makes of argument image_path
    self_partial_credit_threshold,  \* ConfidenceScorer.partial_credit_threshold
    frames,          \* the frames of the calls in progress on one instance
    output_file,     \* <<>> or <<the content of the file at --output-file>>
    args             \* the command line of main, and what sys.stdout is

criteriaVars == <<student_answer, mark_scheme, llm_feedback, match_results>>
combineVars == <<confidence_scores, weights>>
boundaryVars == <<mode, request, stdout, failure>>
otherVars ==
    <<marking_results, arg_expected_answer, embedding_similarity,
      arg_geometric_accuracy, arg_detected_shape, arg_expected_shape,
      self_grid_spacing, arg_image, self_partial_credit_threshold, frames,
      output_file, args>>
vars ==
    <<callee, pc, returned, exception, criteriaVars, combineVars, boundaryVars,
      otherVars>>

----------------------------------------------------------------------------
(* Bounds of the model.                                                    *)

MaxAnswerLen == 3
MaxKeywords == 4
MaxMarks == 2
MaxCriteria == 2
MaxScores == 3
MaxResults == 3
MaxShapes == 2
MaxCalls == 2

----------------------------------------------------------------------------
(* Float arithmetic as exact rationals.                                    *)

Abs(x) == IF x < 0 THEN -x ELSE x

RECURSIVE GCD(_, _)
GCD(a, b) == IF b = 0 THEN a ELSE GCD(b, a % b)

Rat(n, d) ==
    LET g == GCD(Abs(n), Abs(d))
        s == IF d < 0 THEN -1 ELSE 1
    IN  <<(s * n) \div g, (s * d) \div g>>

RInt(n) == <<n, 1>>
RAdd(a, b) == Rat(a[1] * b[2] + b[1] * a[2], a[2] * b[2])
RSub(a, b) == Rat(a[1] * b[2] - b[1] * a[2], a[2] * b[2])
RMul(a, b) == Rat(a[1] * b[1], a[2] * b[2])
RDiv(a, b) == Rat(a[1] * b[2], a[2] * b[1])
RLeq(a, b) == a[1] * b[2] <= b[1] * a[2]
RGeq(a, b) == RLeq(b, a)
RMin(a, b) == IF RLeq(b, a) THEN b ELSE a
RMax(a, b) == IF RLeq(a, b) THEN b ELSE a

----------------------------------------------------------------------------
(* Text.                                                                   *)

Alphabet == {"a", "B"}

LowerChar(ch) ==
    CASE ch = "A" -> "a"
      [] ch = "B" -> "b"
      [] OTHER -> ch

Lower(s) == [i \in 1..Len(s) |-> LowerChar(s[i])]

\* Python's `sub in s` on strings.
Contains(sub, s) ==
    \E i \in 0..(Len(s) - Len(sub)) : SubSeq(s, i + 1, i + Len(sub)) = sub

SeqsUpTo(S, n) == UNION {[1..k -> S] : k \in 0..n}

----------------------------------------------------------------------------
(* The inputs.                                                             *)

Answers == SeqsUpTo(Alphabet, MaxAnswerLen)

KeywordPool == {<<"A", "b">>, <<"b", "a">>}
KeywordLists == SeqsUpTo(KeywordPool, MaxKeywords)
Descriptions == {<<"a", "B">>}
PartialKeywordLists == {<<>>, <<<<"A", "b">>>>}
Tolerances == {Rat(-1, 10), Rat(0, 1), Rat(1, 10), Rat(1, 2), Rat(1, 1)}
DefaultTolerance == Rat(1, 10)
Feedbacks == {<<>>}

Criterion(d, m, k, p, t) ==
    [description |-> d, marks |-> m, keywords |-> k,
     partial_credit_keywords |-> p, tolerance |-> t]

\* Every criterion of the bounded domain.
Criteria ==
    {Criterion(d, m, k, p, t) :
        d \in Descriptions, m \in 1..MaxMarks, k \in KeywordLists,
        p \in PartialKeywordLists, t \in Tolerances}

\* The criteria that mark schemes of two or more criteria are built from.
SchemeKeywordLists ==
    {<<<<"A", "b">>, <<"b", "a">>, <<"A", "b">>>>, <<<<"b", "a">>>>,
     <<<<"A", "b">>>>, <<>>}
SchemeCriteria ==
    {c \in Criteria : /\ c.keywords \in SchemeKeywordLists
                      /\ c.partial_credit_keywords = <<>>
                      /\ c.tolerance = DefaultTolerance}

MarkSchemes ==
    {<<>>} \cup {<<c>> : c \in Criteria}
           \cup UNION {[1..k -> SchemeCriteria] : k \in 2..MaxCriteria}

----------------------------------------------------------------------------
(* ConfidenceScorer.                                                       *)

partial_credit_threshold == Rat(6, 10)

RECURSIVE CountMatches(_, _)
\* sum(1 for keyword in keywords if keyword.lower() in answer_lower)
CountMatches(keywords, answer_lower) ==
    IF keywords = <<>> THEN 0
    ELSE (IF Contains(Lower(Head(keywords)), answer_lower) THEN 1 ELSE 0)
         + CountMatches(Tail(keywords), answer_lower)

RECURSIVE Filter(_, _, _)
\* [kw for kw in keywords if (kw.lower() in text) == keep]
Filter(keywords, text, keep) ==
    IF keywords = <<>> THEN <<>>
    ELSE (IF Contains(Lower(Head(keywords)), text) = keep
          THEN <<Head(keywords)>> ELSE <<>>)
         \o Filter(Tail(keywords), text, keep)

RECURSIVE FilterCaseSensitive(_, _, _)
\* [kw for kw in keywords if (kw in text) == keep]
FilterCaseSensitive(keywords, text, keep) ==
    IF keywords = <<>> THEN <<>>
    ELSE (IF Contains(Head(keywords), text) = keep
          THEN <<Head(keywords)>> ELSE <<>>)
         \o FilterCaseSensitive(Tail(keywords), text, keep)

\* generate_criterion_explanation with the found and missing lists compared
\* without lower().
ExplanationCaseSensitive(criterion, keyword_matches, total_keywords, partial_matches) ==
    IF keyword_matches = total_keywords
    THEN [head |-> "All required keywords found",
          keyword_matches |-> keyword_matches,
          total_keywords |-> total_keywords,
          listed |-> criterion.keywords, missing |-> <<>>]
    ELSE IF keyword_matches > 0
    THEN [head |-> "Found",
          keyword_matches |-> keyword_matches,
          total_keywords |-> total_keywords,
          listed |-> FilterCaseSensitive(criterion.keywords,
                                         criterion.description, TRUE),
          missing |-> FilterCaseSensitive(criterion.keywords,
                                          criterion.description, FALSE)]
    ELSE [head |-> "No required keywords found",
          keyword_matches |-> keyword_matches,
          total_keywords |-> total_keywords,
          listed |-> criterion.keywords, missing |-> <<>>]

generate_criterion_explanation(criterion, keyword_matches, total_keywords, partial_matches) ==
    IF keyword_matches = total_keywords
    THEN [head |-> "All required keywords found",
          keyword_matches |-> keyword_matches,
          total_keywords |-> total_keywords,
          listed |-> criterion.keywords, missing |-> <<>>]
    ELSE IF keyword_matches > 0
    THEN [head |-> "Found",
          keyword_matches |-> keyword_matches,
          total_keywords |-> total_keywords,
          listed |-> Filter(criterion.keywords,
                            Lower(criterion.description), TRUE),
          missing |-> Filter(criterion.keywords,
                             Lower(criterion.description), FALSE)]
    ELSE [head |-> "No required keywords found",
          keyword_matches |-> keyword_matches,
          total_keywords |-> total_keywords,
          listed |-> criterion.keywords, missing |-> <<>>]

MatchPercentage(keyword_matches, total_keywords) ==
    IF total_keywords > 0 THEN Rat(keyword_matches, total_keywords)
    ELSE RInt(0)

\* FullyMatched with a strict comparison.
FullyMatchedStrict(match_percentage, tolerance) ==
    ~RLeq(match_percentage, RSub(RInt(1), tolerance))

FullyMatched(match_percentage, tolerance) ==
    RGeq(match_percentage, RSub(RInt(1), tolerance))

\* PartiallyMatched without the test that the criterion is not fully matched.
PartiallyMatchedAlone(match_percentage, fully_matched) ==
    RGeq(match_percentage, partial_credit_threshold)

PartiallyMatched(match_percentage, fully_matched) ==
    RGeq(match_percentage, partial_credit_threshold) /\ ~fully_matched

\* PartialScore without the criterion's marks.
PartialScoreUnweighted(partially_matched, match_percentage, marks) ==
    IF partially_matched THEN match_percentage ELSE RInt(0)

PartialScore(partially_matched, match_percentage, marks) ==
    IF partially_matched THEN RMul(match_percentage, RInt(marks))
    ELSE RInt(0)

\* check_criterion_match with the keywords also looked up in the feedback.
check_criterion_match_in_feedback(answer, criterion, feedback) ==
    LET answer_lower == Lower(answer \o <<" ">> \o feedback)
        keyword_matches == CountMatches(criterion.keywords, answer_lower)
        total_keywords == Len(criterion.keywords)
        match_percentage == MatchPercentage(keyword_matches, total_keywords)
        fully_matched == FullyMatched(match_percentage, criterion.tolerance)
        partially_matched == PartiallyMatched(match_percentage, fully_matched)
    IN  [fully_matched |-> fully_matched,
         partially_matched |-> partially_matched,
         match_percentage |-> match_percentage,
         partial_score |->
             PartialScore(partially_matched, match_percentage,
                          criterion.marks),
         explanation |->
             generate_criterion_explanation(criterion, keyword_matches,
                                            total_keywords, 0)]

check_criterion_match(answer, criterion, feedback) ==
    LET answer_lower == Lower(answer)
        feedback_lower == Lower(feedback)
        keyword_matches == CountMatches(criterion.keywords, answer_lower)
        partial_matches ==
            IF criterion.partial_credit_keywords # <<>>
            THEN CountMatches(criterion.partial_credit_keywords, answer_lower)
            ELSE 0
        total_keywords == Len(criterion.keywords)
        match_percentage == MatchPercentage(keyword_matches, total_keywords)
        fully_matched == FullyMatched(match_percentage, criterion.tolerance)
        partially_matched == PartiallyMatched(match_percentage, fully_matched)
        partial_score ==
            PartialScore(partially_matched, match_percentage, criterion.marks)
    IN  [fully_matched |-> fully_matched,
         partially_matched |-> partially_matched,
         match_percentage |-> match_percentage,
         partial_score |-> partial_score,
         explanation |->
             generate_criterion_explanation(criterion, keyword_matches,
                                            total_keywords, partial_matches)]

generate_confidence_reasoning(criteria_matched, total_criteria, partial_credit_details, confidence_score) ==
    IF RGeq(confidence_score, Rat(9, 10))
    THEN [band |-> "High confidence", criteria_matched |-> criteria_matched,
          total_criteria |-> total_criteria, partial_matches |-> 0]
    ELSE IF RGeq(confidence_score, Rat(7, 10))
    THEN [band |-> "Good confidence", criteria_matched |-> criteria_matched,
          total_criteria |-> total_criteria,
          partial_matches |-> Len(partial_credit_details)]
    ELSE IF RGeq(confidence_score, Rat(5, 10))
    THEN [band |-> "Moderate confidence",
          criteria_matched |-> criteria_matched,
          total_criteria |-> total_criteria, partial_matches |-> 0]
    ELSE [band |-> "Low confidence", criteria_matched |-> criteria_matched,
          total_criteria |-> total_criteria, partial_matches |-> 0]

\* The match_result of every criterion, in mark-scheme order.
MatchResults(answer, scheme, feedback) ==
    [i \in 1..Len(scheme) |-> check_criterion_match(answer, scheme[i], feedback)]

RECURSIVE MatchedCriteria(_, _)
\* The list matched_criteria after the loop.
MatchedCriteria(scheme, results) ==
    IF scheme = <<>> THEN <<>>
    ELSE (IF Head(results).fully_matched THEN <<Head(scheme)>> ELSE <<>>)
         \o MatchedCriteria(Tail(scheme), Tail(results))

RECURSIVE PartialCreditDetails(_, _)
\* The list partial_credit_details after the loop.
PartialCreditDetails(scheme, results) ==
    IF scheme = <<>> THEN <<>>
    ELSE (IF ~Head(results).fully_matched /\ Head(results).partially_matched
          THEN <<[criterion |-> Head(scheme).description,
                  matched |-> TRUE,
                  partial_score |-> Head(results).partial_score,
                  explanation |-> Head(results).explanation]>>
          ELSE <<>>)
         \o PartialCreditDetails(Tail(scheme), Tail(results))

RECURSIVE SumPartialScores(_)
SumPartialScores(details) ==
    IF details = <<>> THEN RInt(0)
    ELSE RAdd(Head(details).partial_score, SumPartialScores(Tail(details)))

\* TotalScore without the partial credit.
TotalScoreNoPartial(criteria_matched, partial_credit_score) ==
    RInt(criteria_matched)

TotalScore(criteria_matched, partial_credit_score) ==
    RAdd(RInt(criteria_matched), partial_credit_score)

\* total_score / total_criteria raises ZeroDivisionError when the divisor is 0.
DivisionRaises(total_criteria) == total_criteria = 0

\* ConfidenceScore without the cap at 1.0.
ConfidenceScoreUncapped(total_score, total_criteria) ==
    RDiv(total_score, RInt(total_criteria))

ConfidenceScore(total_score, total_criteria) ==
    RMin(RInt(1), RDiv(total_score, RInt(total_criteria)))

\* The ConfidenceBreakdown built when the division does not raise.
Breakdown(scheme, results) ==
    LET matched_criteria == MatchedCriteria(scheme, results)
        partial_credit_details == PartialCreditDetails(scheme, results)
        total_criteria == Len(scheme)
        criteria_matched == Len(matched_criteria)
        partial_credit_score == SumPartialScores(partial_credit_details)
        total_score == TotalScore(criteria_matched, partial_credit_score)
        confidence_score == ConfidenceScore(total_score, total_criteria)
    IN  [criteria_matched |-> criteria_matched,
         total_criteria |-> total_criteria,
         confidence_score |-> confidence_score,
         partial_credit_details |-> partial_credit_details,
         reasoning |->
             generate_confidence_reasoning(criteria_matched, total_criteria,
                                           partial_credit_details,
                                           confidence_score)]

\* CallOutcome with the division guarded: an empty scheme scores 0.
CallOutcomeGuarded(answer, scheme, feedback) ==
    LET results == MatchResults(answer, scheme, feedback)
    IN  IF Len(scheme) = 0
        THEN [pc |-> "returned", exception |-> "",
              returned |-> <<[criteria_matched |-> 0, total_criteria |-> 0,
                              confidence_score |-> RInt(0),
                              partial_credit_details |-> <<>>,
                              reasoning |->
                                  generate_confidence_reasoning(0, 0, <<>>,
                                                                RInt(0))]>>,
              match_results |-> results]
        ELSE [pc |-> "returned", exception |-> "",
              returned |-> <<Breakdown(scheme, results)>>,
              match_results |-> results]

\* What one call of calculate_confidence_from_criteria does: the match results
\* of the loop, then either the ZeroDivisionError of line 73 or the breakdown.
CallOutcome(answer, scheme, feedback) ==
    LET results == MatchResults(answer, scheme, feedback)
    IN  IF DivisionRaises(Len(scheme))
        THEN [pc |-> "raised", exception |-> "ZeroDivisionError",
              returned |-> <<>>, match_results |-> results]
        ELSE [pc |-> "returned", exception |-> "",
              returned |-> <<Breakdown(scheme, results)>>,
              match_results |-> results]

----------------------------------------------------------------------------
(* calculate_confidence_from_criteria as a state machine: one call.        *)

\* The scorer as constructed, with no calls in progress and no output file.
NoSharedCalls ==
    /\ self_partial_credit_threshold = partial_credit_threshold
    /\ frames = <<>>
    /\ output_file = <<>>
    /\ args = <<>>

\* The arguments of the other functions, while they are not called.
NoOtherArguments ==
    /\ marking_results = <<>>
    /\ arg_expected_answer = <<>>
    /\ embedding_similarity = <<>>
    /\ arg_geometric_accuracy = <<>>
    /\ arg_detected_shape = <<>>
    /\ arg_expected_shape = <<>>
    /\ self_grid_spacing = <<>>
    /\ arg_image = <<>>
    /\ NoSharedCalls

InitCriteria ==
    /\ callee = "calculate_confidence_from_criteria"
    /\ pc = "call"
    /\ student_answer \in Answers
    /\ mark_scheme \in MarkSchemes
    /\ llm_feedback \in Feedbacks
    /\ match_results = <<>>
    /\ returned = <<>>
    /\ exception = ""
    /\ confidence_scores = <<>>
    /\ weights = <<>>
    /\ mode = ""
    /\ request = <<>>
    /\ stdout = <<>>
    /\ failure = ""
    /\ NoOtherArguments

calculate_confidence_from_criteria ==
    /\ callee = "calculate_confidence_from_criteria"
    /\ pc = "call"
    /\ LET out == CallOutcome(student_answer, mark_scheme, llm_feedback)
       IN  /\ match_results' = out.match_results
           /\ pc' = out.pc
           /\ exception' = out.exception
           /\ returned' = out.returned
    /\ UNCHANGED <<callee, student_answer, mark_scheme, llm_feedback,
                   combineVars, boundaryVars, otherVars>>

NextCriteria == calculate_confidence_from_criteria

SpecCriteria == InitCriteria /\ [][NextCriteria]_vars

----------------------------------------------------------------------------
(* Properties of calculate_confidence_from_criteria and                    *)
(* _check_criterion_match, stated on the inputs in integer arithmetic.     *)

Criterions == 1..Len(mark_scheme)

\* The keywords of criterion i that occur, lower-cased, in the lower-cased
\* answer, as a set of positions in the keyword list.
HitPositions(i) ==
    {k \in 1..Len(mark_scheme[i].keywords) :
        Contains(Lower(mark_scheme[i].keywords[k]), Lower(student_answer))}

Hits(i) == Cardinality(HitPositions(i))
Total(i) == Len(mark_scheme[i].keywords)
Divisor(i) == IF Total(i) > 1 THEN Total(i) ELSE 1

\* marks >= 1 and 0 <= tolerance <= 1 for every criterion, and at least one.
ValidScheme ==
    /\ mark_scheme # <<>>
    /\ \A i \in Criterions :
        /\ mark_scheme[i].marks >= 1
        /\ mark_scheme[i].tolerance[1] >= 0
        /\ mark_scheme[i].tolerance[1] <= mark_scheme[i].tolerance[2]

\* C1: for a non-empty scheme with marks >= 1 and tolerance in [0,1], the
\* confidence_score returned lies in [0.0, 1.0].
C1_ConfidenceInUnitInterval ==
    (pc = "returned" /\ ValidScheme) =>
        /\ returned[1].confidence_score[1] >= 0
        /\ returned[1].confidence_score[1] <= returned[1].confidence_score[2]

\* A valid scheme whose partial credit alone exceeds the number of criteria,
\* so that the score is cut at 1.0.
C1_Witness ==
    /\ pc = "returned"
    /\ ValidScheme
    /\ returned[1].criteria_matched = 0
    /\ \E d \in 1..Len(returned[1].partial_credit_details) :
          returned[1].partial_credit_details[d].partial_score[1]
            > Len(mark_scheme)
              * returned[1].partial_credit_details[d].partial_score[2]
    /\ returned[1].confidence_score = <<1, 1>>

\* C2: a criterion with keywords, every one of which occurs in the answer,
\* is reported fully_matched, whatever its tolerance.
C2_AllKeywordsFullyMatched ==
    (pc # "call") =>
        \A i \in Criterions :
            (Total(i) >= 1 /\ HitPositions(i) = 1..Total(i))
                => match_results[i].fully_matched

\* C3: fully_matched iff match_percentage >= 1 - tolerance, with
\* match_percentage = hits / max(1, keywords), which is 0 without keywords.
C3_FullMatchIffWithinTolerance ==
    (pc # "call") =>
        \A i \in Criterions :
            LET tol == mark_scheme[i].tolerance
                mp == match_results[i].match_percentage
            IN  /\ mp[1] * Divisor(i) = Hits(i) * mp[2]
                /\ (Total(i) = 0 => mp[1] = 0)
                /\ match_results[i].fully_matched
                     <=> (Hits(i) * tol[2] >= Divisor(i) * (tol[2] - tol[1]))

\* A criterion matched exactly at the limit: match_percentage = 1 - tolerance
\* with some keyword missing.
C3_Witness ==
    /\ pc = "returned"
    /\ \E i \in Criterions :
        LET tol == mark_scheme[i].tolerance
        IN  /\ Hits(i) >= 1
            /\ Hits(i) < Total(i)
            /\ Hits(i) * tol[2] = Total(i) * (tol[2] - tol[1])
            /\ match_results[i].fully_matched

\* C4: partially_matched iff not fully matched and match_percentage >= 0.6;
\* the two flags are never both true.
C4_PartialMatchIffAboveThreshold ==
    (pc # "call") =>
        \A i \in Criterions :
            /\ match_results[i].partially_matched
                 <=> (/\ ~match_results[i].fully_matched
                      /\ Hits(i) * 10 >= 6 * Divisor(i))
            /\ ~(match_results[i].fully_matched
                 /\ match_results[i].partially_matched)

\* A criterion of tolerance 0.1 with 2 of its 3 keywords in the answer, which
\* is partially and not fully matched.
C4_Witness ==
    /\ pc = "returned"
    /\ \E i \in Criterions :
        /\ mark_scheme[i].tolerance = <<1, 10>>
        /\ Total(i) = 3 /\ Hits(i) = 2
        /\ match_results[i].partially_matched
        /\ ~match_results[i].fully_matched

\* C5: partial_score = match_percentage * marks when partially matched and 0
\* otherwise; 3 of 4 keywords with marks 2 and tolerance 0.1, as the only
\* criterion, gives partially_matched, partial_score 1.5, confidence 1.0.
C5_PartialScore ==
    (pc # "call") =>
        /\ \A i \in Criterions :
            LET ps == match_results[i].partial_score
            IN  IF match_results[i].partially_matched
                THEN ps[1] * Divisor(i)
                       = Hits(i) * mark_scheme[i].marks * ps[2]
                ELSE ps[1] = 0
        /\ (/\ Len(mark_scheme) = 1
            /\ Total(1) = 4 /\ Hits(1) = 3
            /\ mark_scheme[1].marks = 2
            /\ mark_scheme[1].tolerance = <<1, 10>>)
           => /\ match_results[1].partially_matched
              /\ match_results[1].partial_score = <<3, 2>>
              /\ pc = "returned"
              /\ returned[1].confidence_score = <<1, 1>>

\* The example: one criterion, 3 of its 4 keywords in the answer, marks 2,
\* tolerance 0.1, and the call has returned.
C5_Witness ==
    /\ pc = "returned"
    /\ Len(mark_scheme) = 1
    /\ Total(1) = 4 /\ Hits(1) = 3
    /\ mark_scheme[1].marks = 2
    /\ mark_scheme[1].tolerance = <<1, 10>>

FullyMatchedSet == {i \in Criterions : match_results[i].fully_matched}
PartiallyMatchedSet ==
    {i \in Criterions : /\ match_results[i].partially_matched
                        /\ ~match_results[i].fully_matched}

RECURSIVE DenominatorProduct(_)
\* The product of the denominators of the partial scores of criteria 1..n.
DenominatorProduct(n) ==
    IF n = 0 THEN 1
    ELSE match_results[n].partial_score[2] * DenominatorProduct(n - 1)

RECURSIVE ScaledPartialSum(_, _)
\* D times the sum of partial_score over the partially matched criteria 1..n.
ScaledPartialSum(n, D) ==
    IF n = 0 THEN 0
    ELSE (IF n \in PartiallyMatchedSet
          THEN (match_results[n].partial_score[1] * D)
                 \div match_results[n].partial_score[2]
          ELSE 0)
         + ScaledPartialSum(n - 1, D)

\* C6: criteria_matched counts the fully matched criteria, one each;
\* total_criteria is the scheme length; confidence_score is
\* min(1.0, (criteria_matched + sum of partial scores) / total_criteria).
C6_BreakdownTotals ==
    (pc = "returned") =>
        LET b == returned[1]
            n == Len(mark_scheme)
            D == DenominatorProduct(n)
            scaled == Cardinality(FullyMatchedSet) * D + ScaledPartialSum(n, D)
        IN  /\ b.criteria_matched = Cardinality(FullyMatchedSet)
            /\ b.total_criteria = n
            /\ IF scaled >= n * D
               THEN b.confidence_score = <<1, 1>>
               ELSE b.confidence_score[1] * n * D
                      = scaled * b.confidence_score[2]

\* Two criteria, one fully matched and worth 2 marks, the other partially
\* matched, and a score below 1.
C6_Witness ==
    /\ pc = "returned"
    /\ Len(mark_scheme) = 2
    /\ \E i \in FullyMatchedSet : mark_scheme[i].marks = 2
    /\ PartiallyMatchedSet # {}
    /\ returned[1].confidence_score[1] < returned[1].confidence_score[2]

\* C7: with an empty mark scheme the call fails with a division by zero and
\* returns no ConfidenceBreakdown.
C7_EmptySchemeRaises ==
    (pc # "call" /\ mark_scheme = <<>>) =>
        /\ pc = "raised"
        /\ exception = "ZeroDivisionError"
        /\ returned = <<>>

\* The call on an empty mark scheme has ended.
C7_Witness ==
    /\ pc = "raised"
    /\ mark_scheme = <<>>
    /\ student_answer # <<>>

\* Other values of llm_feedback and of partial_credit_keywords.
OtherFeedbacks == {<<>>, <<"a", "B">>, <<"b", "a", " ", "A", "b">>}
OtherPartialKeywordLists ==
    {<<>>, <<<<"A", "b">>>>, <<<<"b", "a">>, <<"B">>>>}

\* The mark scheme of the call with partial_credit_keywords p everywhere.
SchemeWithPartialKeywords(p) ==
    [i \in 1..Len(mark_scheme) |->
        [mark_scheme[i] EXCEPT !.partial_credit_keywords = p]]

\* C20: the ConfidenceBreakdown does not depend on llm_feedback nor on the
\* criteria's partial_credit_keywords: the call with any other feedback and
\* any other partial_credit_keywords returns the same criteria_matched,
\* confidence_score, partial_credit_details and reasoning.
C20_FeedbackAndPartialKeywordsIgnored ==
    (callee = "calculate_confidence_from_criteria" /\ pc = "returned")
    => \A f \in OtherFeedbacks, p \in OtherPartialKeywordLists :
          LET other == CallOutcome(student_answer,
                                   SchemeWithPartialKeywords(p), f)
          IN  /\ other.pc = "returned"
              /\ other.returned[1].criteria_matched
                    = returned[1].criteria_matched
              /\ other.returned[1].confidence_score
                    = returned[1].confidence_score
              /\ other.returned[1].partial_credit_details
                    = returned[1].partial_credit_details
              /\ other.returned[1].reasoning = returned[1].reasoning

\* A call whose criterion has a partial_credit_keyword that the answer
\* contains, and that earned partial credit.
C20_Witness ==
    /\ callee = "calculate_confidence_from_criteria"
    /\ pc = "returned"
    /\ Len(mark_scheme) = 1
    /\ mark_scheme[1].partial_credit_keywords # <<>>
    /\ CountMatches(mark_scheme[1].partial_credit_keywords,
                    Lower(student_answer)) > 0
    /\ returned[1].partial_credit_details # <<>>

\* The keywords of criterion i that occur, lower-cased, in the lower-cased
\* description (keep = TRUE) or do not (keep = FALSE), in keyword order.
DescriptionKeywords(i, keep) ==
    LET InDescription(kw) ==
            Contains(Lower(kw), Lower(mark_scheme[i].description)) = keep
    IN  SelectSeq(mark_scheme[i].keywords, InDescription)

\* C24: in a criterion's explanation, when the keywords matched in the answer
\* are all of them the text says that all required keywords were found; when
\* 0 < matched < total the 'Found' list is the keywords that occur in the
\* criterion description and the 'Missing' list those that do not, whatever
\* the answer contains; when matched = 0 < total the text says that no
\* required keywords were found.
C24_ExplanationLists ==
    (callee = "calculate_confidence_from_criteria" /\ pc # "call")
    => \A i \in Criterions :
          LET explanation == match_results[i].explanation
          IN  /\ Hits(i) = Total(i)
                    => explanation.head = "All required keywords found"
              /\ (0 < Hits(i) /\ Hits(i) < Total(i))
                    => /\ explanation.head = "Found"
                       /\ explanation.keyword_matches = Hits(i)
                       /\ explanation.total_keywords = Total(i)
                       /\ explanation.listed = DescriptionKeywords(i, TRUE)
                       /\ explanation.missing = DescriptionKeywords(i, FALSE)
              /\ (Hits(i) = 0 /\ 0 < Total(i))
                    => explanation.head = "No required keywords found"

\* The answer contains one keyword of two, and the 'Found' list names the
\* other one: the one that the description contains.
C24_Witness ==
    /\ callee = "calculate_confidence_from_criteria"
    /\ pc = "returned"
    /\ Len(mark_scheme) = 1
    /\ Total(1) = 2 /\ Hits(1) = 1
    /\ LET found == match_results[1].explanation.listed
       IN  /\ Len(found) = 1
           /\ ~Contains(Lower(found[1]), Lower(student_answer))
    /\ Len(match_results[1].explanation.missing) = 1

\* Whether answer b contains every keyword of the scheme that the answer of
\* the call contains.
ContainsAllMatched(b) ==
    \A i \in Criterions :
        \A k \in HitPositions(i) :
            Contains(Lower(mark_scheme[i].keywords[k]), Lower(b))

\* C25: confidence is monotone in the matched keywords: for a non-empty
\* scheme with marks >= 1 and tolerances in [0, 1], an answer that contains
\* every criterion keyword the answer of the call contains gets a
\* confidence_score that is not lower.
C25_MonotoneInMatchedKeywords ==
    (/\ callee = "calculate_confidence_from_criteria"
     /\ pc = "returned"
     /\ ValidScheme)
    => \A b \in Answers :
          ContainsAllMatched(b)
          => LET other == CallOutcome(b, mark_scheme, llm_feedback)
             IN  /\ other.pc = "returned"
                 /\ RGeq(other.returned[1].confidence_score,
                         returned[1].confidence_score)

\* C27: for a criterion of tolerance in [0, 1), an empty keyword list
\* included, the explanation begins 'All required keywords found' only when
\* fully_matched is true.
C27_AllFoundOnlyWhenFullyMatched ==
    (callee = "calculate_confidence_from_criteria" /\ pc # "call")
    => \A i \in Criterions :
          (/\ mark_scheme[i].tolerance[1] >= 0
           /\ mark_scheme[i].tolerance[1] < mark_scheme[i].tolerance[2]
           /\ match_results[i].explanation.head
                 = "All required keywords found")
          => match_results[i].fully_matched

----------------------------------------------------------------------------
(* combine_confidence_scores.                                              *)

ScoreValues == {Rat(-1, 2), Rat(0, 1), Rat(1, 2), Rat(3, 2)}
WeightValues == {RInt(-1), RInt(0), RInt(1), RInt(2)}
ScoreLists == SeqsUpTo(ScoreValues, MaxScores)
\* weights: None, or a list that need not be as long as the scores.
WeightArguments == {<<>>} \cup {<<w>> : w \in SeqsUpTo(WeightValues, MaxScores)}

RECURSIVE RSum(_)
\* sum(values)
RSum(values) ==
    IF values = <<>> THEN RInt(0) ELSE RAdd(Head(values), RSum(Tail(values)))

\* Clamp01 without the lower limit.
ClampUpperOnly(x) == RMin(RInt(1), x)

\* min(1.0, max(0.0, x))
Clamp01(x) == RMin(RInt(1), RMax(RInt(0), x))

\* [1.0 / n] * n
EqualWeights(n) == [i \in 1..n |-> Rat(1, n)]

\* The weights used: the argument, or equal weights when it is None.
UsedWeights(scores, w) == IF w = <<>> THEN EqualWeights(Len(scores)) ELSE w[1]

\* total_weight > 0
RPositive(x) == x[1] > 0

\* [1.0 / len(weights)] * len(weights) divides by zero for an empty list.
NormalizeRaises(ws) == ~RPositive(RSum(ws)) /\ Len(ws) = 0

\* NormalizedWeights ignoring the weights given: always equal weights.
NormalizedWeightsEqual(ws) == EqualWeights(Len(ws))

\* NormalizedWeights without the division by the total weight.
NormalizedWeightsRaw(ws) ==
    IF RPositive(RSum(ws)) THEN ws ELSE EqualWeights(Len(ws))

NormalizedWeights(ws) ==
    LET total_weight == RSum(ws)
    IN  IF RPositive(total_weight)
        THEN [i \in 1..Len(ws) |-> RDiv(ws[i], total_weight)]
        ELSE EqualWeights(Len(ws))

RECURSIVE WeightedSum(_, _)
\* sum(score * weight for score, weight in zip(scores, ws))
WeightedSum(scores, ws) ==
    IF scores = <<>> \/ ws = <<>> THEN RInt(0)
    ELSE RAdd(RMul(Head(scores), Head(ws)),
              WeightedSum(Tail(scores), Tail(ws)))

\* What one call of combine_confidence_scores does.
CombineOutcome(scores, w) ==
    IF scores = <<>>
    THEN [pc |-> "returned", exception |-> "", returned |-> <<RInt(0)>>]
    ELSE LET ws == UsedWeights(scores, w)
         IN  IF NormalizeRaises(ws)
             THEN [pc |-> "raised", exception |-> "ZeroDivisionError",
                   returned |-> <<>>]
             ELSE [pc |-> "returned", exception |-> "",
                   returned |->
                       <<Clamp01(WeightedSum(scores, NormalizedWeights(ws)))>>]

InitCombine ==
    /\ callee = "combine_confidence_scores"
    /\ pc = "call"
    /\ confidence_scores \in ScoreLists
    /\ weights \in WeightArguments
    /\ returned = <<>>
    /\ exception = ""
    /\ student_answer = <<>>
    /\ mark_scheme = <<>>
    /\ llm_feedback = <<>>
    /\ match_results = <<>>
    /\ mode = ""
    /\ request = <<>>
    /\ stdout = <<>>
    /\ failure = ""
    /\ NoOtherArguments

combine_confidence_scores ==
    /\ callee = "combine_confidence_scores"
    /\ pc = "call"
    /\ LET out == CombineOutcome(confidence_scores, weights)
       IN  /\ pc' = out.pc
           /\ exception' = out.exception
           /\ returned' = out.returned
    /\ UNCHANGED <<callee, criteriaVars, combineVars, boundaryVars, otherVars>>

NextCombine == combine_confidence_scores

SpecCombine == InitCombine /\ [][NextCombine]_vars

RECURSIVE ScoreDenominators(_)
\* The product of the denominators of the first n scores.
ScoreDenominators(n) ==
    IF n = 0 THEN 1 ELSE confidence_scores[n][2] * ScoreDenominators(n - 1)

RECURSIVE ScaledScoreSum(_, _)
\* D times the sum of the first n scores.
ScaledScoreSum(n, D) ==
    IF n = 0 THEN 0
    ELSE (confidence_scores[n][1] * D) \div confidence_scores[n][2]
         + ScaledScoreSum(n - 1, D)

\* C10: with weights omitted the result is the arithmetic mean of the scores
\* cut to [0, 1]; for a single score x it is x cut to [0, 1].
C10_UnweightedIsClampedMean ==
    (pc # "call" /\ weights = <<>> /\ confidence_scores # <<>>) =>
        LET n == Len(confidence_scores)
            D == ScoreDenominators(n)
            S == ScaledScoreSum(n, D)
            x == confidence_scores[1]
        IN  /\ pc = "returned"
            /\ IF S <= 0 THEN returned[1] = <<0, 1>>
               ELSE IF S >= n * D THEN returned[1] = <<1, 1>>
               ELSE returned[1][1] * n * D = S * returned[1][2]
            /\ (n = 1) =>
                  returned[1] = (IF x[1] <= 0 THEN <<0, 1>>
                                 ELSE IF x[1] >= x[2] THEN <<1, 1>>
                                 ELSE x)

\* Three scores, one below 0 and one above 1, combined without
\* weights into a mean strictly between 0 and 1.
C10_Witness ==
    /\ pc = "returned"
    /\ weights = <<>>
    /\ Len(confidence_scores) = 3
    /\ \E i, j \in 1..3 : /\ confidence_scores[i][1] < 0
                          /\ confidence_scores[j][1] > confidence_scores[j][2]
    /\ returned[1][1] > 0
    /\ returned[1][1] < returned[1][2]

\* The score x cut to [0, 1], compared on numerators and denominators.
CutToUnit(x) ==
    IF x[1] <= 0 THEN <<0, 1>> ELSE IF x[1] >= x[2] THEN <<1, 1>> ELSE x

\* C11: combine_confidence_scores([a, b], [1, 0]) is a cut to [0, 1],
\* whatever b is: the score of weight 0 has no influence.
C11_ZeroWeightSelects ==
    (/\ pc # "call"
     /\ Len(confidence_scores) = 2
     /\ weights = <<(<<RInt(1), RInt(0)>>)>>)
    => /\ pc = "returned"
       /\ returned[1] = CutToUnit(confidence_scores[1])

\* Scores a = 1/2 and b = 3/2 with weights [1, 0]: the result is 1/2.
C11_Witness ==
    /\ pc = "returned"
    /\ confidence_scores = <<Rat(1, 2), Rat(3, 2)>>
    /\ weights = <<(<<RInt(1), RInt(0)>>)>>
    /\ returned = <<Rat(1, 2)>>

\* The weights given, as integers, and their sum.
GivenWeight(i) == weights[1][i][1]

RECURSIVE WeightTotal(_)
WeightTotal(n) == IF n = 0 THEN 0 ELSE GivenWeight(n) + WeightTotal(n - 1)

RECURSIVE ScaledWeightedSum(_, _)
\* D times the sum of score * weight over the first n positions.
ScaledWeightedSum(n, D) ==
    IF n = 0 THEN 0
    ELSE ((confidence_scores[n][1] * D) \div confidence_scores[n][2])
             * GivenWeight(n)
         + ScaledWeightedSum(n - 1, D)

\* The weights of the call, each multiplied by k.
TimesWeights(k) ==
    <<[i \in 1..Len(weights[1]) |-> RMul(RInt(k), weights[1][i])]>>

C12_WitnessZeroSum ==
    /\ pc = "returned"
    /\ confidence_scores = <<Rat(1, 2), RInt(0)>>
    /\ weights = <<(<<RInt(1), RInt(-1)>>)>>
    /\ returned = <<Rat(1, 4)>>

----------------------------------------------------------------------------
(* calculate_model_agreement_confidence.                                   *)

\* dict.get(key, default) on a record that holds some of its keys.
Get(d, key, default) == IF key \in DOMAIN d THEN d[key] ELSE default

\* An optional key of a dict: <<>> when absent, <<value>> when present.
Field(key, optional) ==
    IF optional = <<>> THEN <<>> ELSE (key :> optional[1])

Optional(values) == {<<>>} \cup {<<v>> : v \in values}

\* A value of the input that is not a dict, and the test for it.
NotADict == [not_a_dict |-> TRUE]
IsDict(d) == "not_a_dict" \notin DOMAIN d

ISqrt(n) == CHOOSE k \in 0..n : k * k <= n /\ (k + 1) * (k + 1) > n
IsSquare(n) == ISqrt(n) * ISqrt(n) = n
\* Whether math.sqrt(r) is a rational.
HasRoot(r) == r[1] >= 0 /\ IsSquare(r[1]) /\ IsSquare(r[2])
\* math.sqrt(r) for such an r.
RSqrt(r) == <<ISqrt(r[1]), ISqrt(r[2])>>

AwardedValues == {0, 1, 3}
TotalValues == {-1, 0, 1, 2}
MarkingResultEntries ==
    {[marks_awarded |-> m, total_marks |-> t] :
        m \in AwardedValues, t \in TotalValues}
    \cup {<<>>, [marks_awarded |-> 1], [total_marks |-> 2], NotADict}

RECURSIVE PercentageScoresCountInvalid(_)
\* PercentageScores with an entry of total_marks <= 0 counted as 0 percent.
PercentageScoresCountInvalid(results) ==
    IF results = <<>> THEN <<>>
    ELSE LET marks == Get(Head(results), "marks_awarded", 0)
             total == Get(Head(results), "total_marks", 1)
         IN  (IF total > 0 THEN <<Rat(marks, total)>> ELSE <<RInt(0)>>)
             \o PercentageScoresCountInvalid(Tail(results))

RECURSIVE PercentageScores(_)
\* [marks / total for marks, total in zip(...) if total > 0]
PercentageScores(results) ==
    IF results = <<>> THEN <<>>
    ELSE LET marks == Get(Head(results), "marks_awarded", 0)
             total == Get(Head(results), "total_marks", 1)
         IN  (IF total > 0 THEN <<Rat(marks, total)>> ELSE <<>>)
             \o PercentageScores(Tail(results))

MeanScore(scores) == RDiv(RSum(scores), RInt(Len(scores)))

RECURSIVE SquaredDeviations(_, _)
SquaredDeviations(scores, mean_score) ==
    IF scores = <<>> THEN <<>>
    ELSE <<RMul(RSub(Head(scores), mean_score),
                RSub(Head(scores), mean_score))>>
         \o SquaredDeviations(Tail(scores), mean_score)

Variance(scores) ==
    RDiv(RSum(SquaredDeviations(scores, MeanScore(scores))),
         RInt(Len(scores)))

\* AgreementConfidence with the standard deviation taken once, not twice.
AgreementConfidenceUnscaled(variance) ==
    IF RGeq(variance, RInt(1)) THEN RInt(0)
    ELSE RMin(RInt(1), RMax(RInt(0), RSub(RInt(1), RSqrt(variance))))

\* min(1.0, max(0, 1 - std_dev * 2)).  For a variance of 1/4 or more the
\* value is 0 whatever the root; below that the root is taken exactly.
AgreementConfidence(variance) ==
    IF RGeq(variance, Rat(1, 4)) THEN RInt(0)
    ELSE RMin(RInt(1),
              RMax(RInt(0),
                   RSub(RInt(1), RMul(RSqrt(variance), RInt(2)))))

\* The lists on which the result is a rational.
Computable(results) ==
    \/ \E i \in 1..Len(results) : ~IsDict(results[i])
    \/ PercentageScores(results) = <<>>
    \/ LET variance == Variance(PercentageScores(results))
       IN  RGeq(variance, Rat(1, 4)) \/ HasRoot(variance)

MarkingResultLists ==
    {r \in SeqsUpTo(MarkingResultEntries, MaxResults) : Computable(r)}

\* What one call of calculate_model_agreement_confidence does.
AgreementOutcome(results) ==
    IF results = <<>>
    THEN [pc |-> "returned", exception |-> "", returned |-> <<RInt(0)>>]
    ELSE IF \E i \in 1..Len(results) : ~IsDict(results[i])
    THEN [pc |-> "raised", exception |-> "AttributeError", returned |-> <<>>]
    ELSE LET percentage_scores == PercentageScores(results)
         IN  IF percentage_scores = <<>>
             THEN [pc |-> "returned", exception |-> "",
                   returned |-> <<RInt(0)>>]
             ELSE [pc |-> "returned", exception |-> "",
                   returned |->
                       <<AgreementConfidence(Variance(percentage_scores))>>]

\* The variables a call of another function leaves idle.
IdleCriteria ==
    /\ student_answer = <<>>
    /\ mark_scheme = <<>>
    /\ llm_feedback = <<>>
    /\ match_results = <<>>
IdleCombine == confidence_scores = <<>> /\ weights = <<>>
IdleBoundary ==
    /\ mode = ""
    /\ request = <<>>
    /\ stdout = <<>>
    /\ failure = ""

InitAgreement ==
    /\ callee = "calculate_model_agreement_confidence"
    /\ pc = "call"
    /\ marking_results \in MarkingResultLists
    /\ returned = <<>>
    /\ exception = ""
    /\ IdleCriteria
    /\ IdleCombine
    /\ IdleBoundary
    /\ arg_expected_answer = <<>>
    /\ embedding_similarity = <<>>
    /\ arg_geometric_accuracy = <<>>
    /\ arg_detected_shape = <<>>
    /\ arg_expected_shape = <<>>
    /\ self_grid_spacing = <<>>
    /\ arg_image = <<>>
    /\ NoSharedCalls

calculate_model_agreement_confidence ==
    /\ callee = "calculate_model_agreement_confidence"
    /\ pc = "call"
    /\ LET out == AgreementOutcome(marking_results)
       IN  /\ pc' = out.pc
           /\ exception' = out.exception
           /\ returned' = out.returned
    /\ UNCHANGED <<callee, criteriaVars, combineVars, boundaryVars, otherVars>>

NextAgreement == calculate_model_agreement_confidence

SpecAgreement == InitAgreement /\ [][NextAgreement]_vars

\* The total_marks and marks_awarded an entry counts with.
TotalOf(entry) == IF "total_marks" \in DOMAIN entry THEN entry.total_marks ELSE 1
AwardedOf(entry) ==
    IF "marks_awarded" \in DOMAIN entry THEN entry.marks_awarded ELSE 0

AllDicts == \A i \in 1..Len(marking_results) : IsDict(marking_results[i])

RECURSIVE ValidEntries(_)
\* The list with the entries of total_marks <= 0 removed.
ValidEntries(results) ==
    IF results = <<>> THEN <<>>
    ELSE (IF TotalOf(Head(results)) > 0 THEN <<Head(results)>> ELSE <<>>)
         \o ValidEntries(Tail(results))

\* C13: entries with total_marks <= 0 are ignored: the call returns what it
\* returns for the list without them; an empty list and a list of such
\* entries only return 0.0, and nothing is raised.
C13_InvalidEntriesIgnored ==
    (pc # "call" /\ AllDicts)
    => /\ pc = "returned"
       /\ returned = AgreementOutcome(ValidEntries(marking_results)).returned
       /\ ValidEntries(marking_results) = <<>> => returned = <<RInt(0)>>

\* A list of 1/1 and an entry of total_marks 0: full agreement, as for the
\* list of 1/1 alone.
C13_Witness ==
    /\ pc = "returned"
    /\ Len(marking_results) = 2
    /\ AllDicts
    /\ \E i, j \in 1..2 :
          /\ TotalOf(marking_results[i]) = 0
          /\ AwardedOf(marking_results[i]) = 3
          /\ TotalOf(marking_results[j]) = 1
          /\ AwardedOf(marking_results[j]) = 1
    /\ returned = <<RInt(1)>>

\* A list of entries of total_marks <= 0 only returns 0.0.
C13_WitnessAllInvalid ==
    /\ pc = "returned"
    /\ Len(marking_results) = 2
    /\ AllDicts
    /\ \A i \in 1..2 : TotalOf(marking_results[i]) <= 0
    /\ returned = <<RInt(0)>>

\* The product of the total_marks of the valid entries among the first n.
RECURSIVE TotalsProduct(_)
TotalsProduct(n) ==
    IF n = 0 THEN 1
    ELSE (IF TotalOf(marking_results[n]) > 0
          THEN TotalOf(marking_results[n]) ELSE 1) * TotalsProduct(n - 1)

\* The percentage of entry i times T, zero for an entry that is not valid.
ScaledPercentage(i, T) ==
    IF TotalOf(marking_results[i]) > 0
    THEN (AwardedOf(marking_results[i]) * T) \div TotalOf(marking_results[i])
    ELSE 0

RECURSIVE SumScaled(_, _)
SumScaled(n, T) ==
    IF n = 0 THEN 0 ELSE ScaledPercentage(n, T) + SumScaled(n - 1, T)

RECURSIVE SumScaledSquares(_, _)
SumScaledSquares(n, T) ==
    IF n = 0 THEN 0
    ELSE ScaledPercentage(n, T) * ScaledPercentage(n, T)
         + SumScaledSquares(n - 1, T)

\* C14: with at least one entry of total_marks > 0 the result r is
\* clamp(1 - 2*sigma, 0, 1) for the population standard deviation sigma of
\* the percentages of the valid entries: r is 0 when the variance is 1/4 or
\* more, and otherwise 0 <= r <= 1 and (1 - r)^2 = 4 * variance; it is 1
\* when all the percentages are equal.  With k valid entries, percentages
\* q_i / T and V = k * sum(q_i^2) - (sum q_i)^2, the variance is
\* V / (k^2 * T^2).
C14_AgreementFormula ==
    (pc # "call" /\ AllDicts /\ ValidEntries(marking_results) # <<>>)
    => LET n == Len(marking_results)
           k == Len(ValidEntries(marking_results))
           T == TotalsProduct(n)
           V == k * SumScaledSquares(n, T) - SumScaled(n, T) * SumScaled(n, T)
           r == returned[1]
       IN  /\ pc = "returned"
           /\ IF 4 * V >= k * k * T * T
              THEN r = <<0, 1>>
              ELSE /\ 0 <= r[1] /\ r[1] <= r[2]
                   /\ (r[2] - r[1]) * (r[2] - r[1]) * k * k * T * T
                         = 4 * V * r[2] * r[2]
           /\ (V = 0) => r = <<1, 1>>

\* Percentages 0 and 1/2: the standard deviation is 1/4 and the result 1/2.
C14_Witness ==
    /\ pc = "returned"
    /\ marking_results = <<[marks_awarded |-> 0, total_marks |-> 1],
                           [marks_awarded |-> 1, total_marks |-> 2]>>
    /\ returned = <<Rat(1, 2)>>

\* Percentages 3 and 0 (marks above the total): the spread is beyond 1/2 and
\* the result 0.
C14_WitnessSpread ==
    /\ pc = "returned"
    /\ marking_results = <<[marks_awarded |-> 3, total_marks |-> 1],
                           [marks_awarded |-> 0, total_marks |-> 1]>>
    /\ returned = <<RInt(0)>>

----------------------------------------------------------------------------
(* calculate_embedding_confidence.                                         *)

TextAlphabet == {"a", "B", " "}

RECURSIVE SplitWords(_, _)
\* str.split(): the maximal runs of characters that are not whitespace;
\* word is the run being read.
SplitWords(text, word) ==
    IF text = <<>> THEN (IF word = <<>> THEN <<>> ELSE <<word>>)
    ELSE IF Head(text) = " "
    THEN (IF word = <<>> THEN <<>> ELSE <<word>>)
         \o SplitWords(Tail(text), <<>>)
    ELSE SplitWords(Tail(text), Append(word, Head(text)))

Split(text) == SplitWords(text, <<>>)

\* set(text.lower().split())
WordSet(text) ==
    LET words == Split(Lower(text)) IN {words[i] : i \in 1..Len(words)}

StudentTexts == SeqsUpTo(TextAlphabet, MaxAnswerLen)
ExpectedTexts ==
    {<<>>, <<" ">>, <<"A">>, <<"a", " ", "b">>, <<"a", " ", "a">>,
     <<"b", " ", "B", "a", " ", "a">>}
Similarities == {Rat(-1, 2), RInt(0), Rat(1, 2), RInt(1), Rat(3, 2)}

\* Whether expected_length / student_length divides by zero.
LengthRatioRaises(student_length, expected_length) ==
    expected_length > 0 /\ student_length = 0

LengthFactor(student_length, expected_length) ==
    IF expected_length > 0
    THEN RMul(RMin(Rat(student_length, expected_length),
                   Rat(expected_length, student_length)),
              Rat(2, 10))
    ELSE RInt(0)

KeywordFactor(student, expected) ==
    LET expected_words == WordSet(expected)
        student_words == WordSet(student)
    IN  IF expected_words # {}
        THEN RMul(Rat(Cardinality(expected_words \cap student_words),
                      Cardinality(expected_words)),
                  Rat(3, 10))
        ELSE RInt(0)

\* What one call of calculate_embedding_confidence does.
EmbeddingOutcome(student, expected, similarity) ==
    LET student_length == Len(Split(student))
        expected_length == Len(Split(expected))
    IN  IF LengthRatioRaises(student_length, expected_length)
        THEN [pc |-> "raised", exception |-> "ZeroDivisionError",
              returned |-> <<>>]
        ELSE LET final_confidence ==
                     RAdd(RAdd(RMul(similarity, Rat(5, 10)),
                               LengthFactor(student_length, expected_length)),
                          KeywordFactor(student, expected))
             IN  [pc |-> "returned", exception |-> "",
                  returned |-> <<Clamp01(final_confidence)>>]

InitEmbedding ==
    /\ callee = "calculate_embedding_confidence"
    /\ pc = "call"
    /\ student_answer \in StudentTexts
    /\ arg_expected_answer \in ExpectedTexts
    /\ embedding_similarity \in Similarities
    /\ returned = <<>>
    /\ exception = ""
    /\ mark_scheme = <<>>
    /\ llm_feedback = <<>>
    /\ match_results = <<>>
    /\ IdleCombine
    /\ IdleBoundary
    /\ marking_results = <<>>
    /\ arg_geometric_accuracy = <<>>
    /\ arg_detected_shape = <<>>
    /\ arg_expected_shape = <<>>
    /\ self_grid_spacing = <<>>
    /\ arg_image = <<>>
    /\ NoSharedCalls

calculate_embedding_confidence ==
    /\ callee = "calculate_embedding_confidence"
    /\ pc = "call"
    /\ LET out == EmbeddingOutcome(student_answer, arg_expected_answer,
                                   embedding_similarity)
       IN  /\ pc' = out.pc
           /\ exception' = out.exception
           /\ returned' = out.returned
    /\ UNCHANGED <<callee, criteriaVars, combineVars, boundaryVars, otherVars>>

NextEmbedding == calculate_embedding_confidence

SpecEmbedding == InitEmbedding /\ [][NextEmbedding]_vars

\* Whether the call returned a value in [0, 1].
ReturnedInUnit ==
    /\ pc = "returned"
    /\ returned # <<>>
    /\ 0 <= returned[1][1]
    /\ returned[1][1] <= returned[1][2]

\* C15: a student answer of no words with an expected answer of at least one
\* word does not make calculate_embedding_confidence fail: it returns a value
\* in [0, 1].
C15_EmptyStudentAnswerReturns ==
    (/\ callee = "calculate_embedding_confidence"
     /\ pc # "call"
     /\ Split(student_answer) = <<>>
     /\ Split(arg_expected_answer) # <<>>)
    => ReturnedInUnit

----------------------------------------------------------------------------
(* VisualMarker: grading a detected shape against the expected shape.      *)
(* A point is <<x, y>> with rational coordinates; +infinity is <<1, 0>>.   *)

Infinity == <<1, 0>>
RLt(a, b) == ~RLeq(b, a)
RAbs(a) == <<Abs(a[1]), a[2]>>

Point(x, y) == <<RInt(x), RInt(y)>>

SquaredDistance(p, q) ==
    RAdd(RMul(RSub(p[1], q[1]), RSub(p[1], q[1])),
         RMul(RSub(p[2], q[2]), RSub(p[2], q[2])))

\* math.dist(p, q)
Dist(p, q) == RSqrt(SquaredDistance(p, q))

\* np.mean(values) of a non-empty list
RMean(values) == RDiv(RSum(values), RInt(Len(values)))

pixels_to_grid(vertices, grid_spacing) ==
    [i \in 1..Len(vertices) |->
        <<RDiv(vertices[i][1], grid_spacing),
          RDiv(vertices[i][2], grid_spacing)>>]

RECURSIVE PositiveOnly(_)
\* [d for d in distances if d > 0]
PositiveOnly(distances) ==
    IF distances = <<>> THEN <<>>
    ELSE (IF RPositive(Head(distances)) THEN <<Head(distances)>> ELSE <<>>)
         \o PositiveOnly(Tail(distances))

\* The distances between adjacent vertices, for i in range(len(detected) - 1).
EdgeLengths(vertices, n) ==
    [i \in 1..(n - 1) |-> Dist(vertices[i], vertices[i + 1])]

RECURSIVE EdgeRatios(_, _, _)
\* The ratios detected / expected of the edges i.. whose lengths are positive.
EdgeRatios(detected_distances, expected_distances, i) ==
    IF i > Len(detected_distances) THEN <<>>
    ELSE (IF RPositive(detected_distances[i])
             /\ RPositive(expected_distances[i])
          THEN <<RDiv(detected_distances[i], expected_distances[i])>>
          ELSE <<>>)
         \o EdgeRatios(detected_distances, expected_distances, i + 1)

\* calculate_scale_factor as the mean of the edge-by-edge ratios.
ScaleFactorMeanOfRatios(detected, expected) ==
    IF Len(detected) < 2 \/ Len(expected) < 2 THEN RInt(1)
    ELSE LET ratios == EdgeRatios(EdgeLengths(detected, Len(detected)),
                                  EdgeLengths(expected, Len(detected)), 1)
         IN  IF ratios # <<>> THEN RMean(ratios) ELSE RInt(1)

calculate_scale_factor(detected, expected) ==
    IF Len(detected) < 2 \/ Len(expected) < 2 THEN RInt(1)
    ELSE LET detected_distances == EdgeLengths(detected, Len(detected))
             expected_distances == EdgeLengths(expected, Len(detected))
         IN  IF PositiveOnly(expected_distances) # <<>>
             THEN RDiv(RMean(PositiveOnly(detected_distances)),
                       RMean(PositiveOnly(expected_distances)))
             ELSE RInt(1)

\* The vector from the first vertex to vertex i.
VectorFromFirst(vertices, i) ==
    <<RSub(vertices[i][1], vertices[1][1]),
      RSub(vertices[i][2], vertices[1][2])>>

\* any(vec): some component is not zero.
NonZero(vec) == vec[1][1] # 0 \/ vec[2][1] # 0

Dot(u, v) == RAdd(RMul(u[1], v[1]), RMul(u[2], v[2]))
Norm(u) == RSqrt(Dot(u, u))

\* np.dot(d, e) / (norm(d) * norm(e)), clipped to [-1, 1]
CosAngle(d_vec, e_vec) ==
    RMax(RInt(-1),
         RMin(RInt(1),
              RDiv(Dot(d_vec, e_vec), RMul(Norm(d_vec), Norm(e_vec)))))

\* The cosines whose arc-cosine is a rational number of degrees.
ExactCosines == {RInt(1), Rat(1, 2), RInt(0), Rat(-1, 2), RInt(-1)}

\* np.arccos(cos_angle) * 180 / np.pi
ArcCosDegrees(cos_angle) ==
    CASE cos_angle = RInt(1) -> RInt(0)
      [] cos_angle = Rat(1, 2) -> RInt(60)
      [] cos_angle = RInt(0) -> RInt(90)
      [] cos_angle = Rat(-1, 2) -> RInt(120)
      [] cos_angle = RInt(-1) -> RInt(180)

RECURSIVE Angles(_, _, _)
\* The angles of the pairs of non-zero vectors, for i in range(1, len(detected)).
Angles(detected, expected, i) ==
    IF i > Len(detected) THEN <<>>
    ELSE LET d_vec == VectorFromFirst(detected, i)
             e_vec == VectorFromFirst(expected, i)
         IN  (IF NonZero(d_vec) /\ NonZero(e_vec)
              THEN <<ArcCosDegrees(CosAngle(d_vec, e_vec))>>
              ELSE <<>>)
             \o Angles(detected, expected, i + 1)

calculate_rotation_angle(detected, expected) ==
    IF Len(detected) < 2 \/ Len(expected) < 2 THEN RInt(0)
    ELSE LET angles == Angles(detected, expected, 2)
         IN  IF angles # <<>> THEN RMean(angles) ELSE RInt(0)

calculate_position_error(detected, expected) ==
    IF Len(detected) # Len(expected) THEN Infinity
    ELSE LET errors == [i \in 1..Len(detected) |->
                           Dist(detected[i], expected[i])]
         IN  IF errors # <<>> THEN RMean(errors) ELSE Infinity

DefaultTolerances ==
    [scale |-> Rat(1, 10), rotation |-> RInt(5), position |-> RInt(1)]

\* SubScore without the floor at 0.
SubScoreNoFloor(deviation, tolerance) ==
    RSub(RInt(1), RDiv(deviation, tolerance))

\* max(0, 1 - deviation / tolerance)
SubScore(deviation, tolerance) ==
    RMax(RInt(0), RSub(RInt(1), RDiv(deviation, tolerance)))

\* Whether a division by a tolerance of zero raises ZeroDivisionError.
ToleranceRaises(expected_shape) ==
    LET tolerances == Get(expected_shape, "tolerance", <<>>)
    IN  \/ Get(tolerances, "scale", DefaultTolerances.scale)[1] = 0
        \/ Get(tolerances, "rotation", DefaultTolerances.rotation)[1] = 0
        \/ Get(tolerances, "position", DefaultTolerances.position)[1] = 0

calculate_overall_accuracy(scale_factor, rotation_angle, position_error, expected_shape) ==
    LET tolerances == Get(expected_shape, "tolerance", <<>>)
        scale_tolerance == Get(tolerances, "scale", DefaultTolerances.scale)
        rotation_tolerance ==
            Get(tolerances, "rotation", DefaultTolerances.rotation)
        position_tolerance ==
            Get(tolerances, "position", DefaultTolerances.position)
        scale_score ==
            SubScore(RAbs(RSub(scale_factor, RInt(1))), scale_tolerance)
        rotation_score == SubScore(RAbs(rotation_angle), rotation_tolerance)
        position_score == SubScore(position_error, position_tolerance)
        overall_score ==
            RAdd(RAdd(RMul(scale_score, Rat(3, 10)),
                      RMul(rotation_score, Rat(3, 10))),
                 RMul(position_score, Rat(4, 10)))
    IN  RMax(RInt(0), RMin(RInt(1), overall_score))

GeometricAccuracy(s, r, p, o) ==
    [scale_factor |-> s, rotation_angle |-> r, position_error |-> p,
     overall_accuracy |-> o]

\* MismatchAccuracy with a partial score of 1/2.
MismatchAccuracyPartial ==
    GeometricAccuracy(RInt(0), RInt(0), Infinity, Rat(1, 2))

\* MismatchAccuracy with the measurements of a perfect drawing.
MismatchAccuracyPerfect ==
    GeometricAccuracy(RInt(1), RInt(0), RInt(0), RInt(0))

\* The result of a type mismatch, a vertex-count mismatch or no expected
\* vertices.
MismatchAccuracy == GeometricAccuracy(RInt(0), RInt(0), Infinity, RInt(0))

\* The shape-type value compared on line 215: expected_shape.get('shape_type').
NoShapeType == "None"

grade_geometric_accuracy(detected_shape, expected_shape, grid_spacing) ==
    IF detected_shape.shape_type # Get(expected_shape, "shape_type", NoShapeType)
    THEN MismatchAccuracy
    ELSE LET grid_vertices ==
                 pixels_to_grid(detected_shape.vertices, grid_spacing)
             expected_vertices == Get(expected_shape, "vertices", <<>>)
         IN  IF expected_vertices = <<>>
                \/ Len(grid_vertices) # Len(expected_vertices)
             THEN MismatchAccuracy
             ELSE LET scale_factor ==
                          calculate_scale_factor(grid_vertices,
                                                 expected_vertices)
                      rotation_angle ==
                          calculate_rotation_angle(grid_vertices,
                                                   expected_vertices)
                      position_error ==
                          calculate_position_error(grid_vertices,
                                                   expected_vertices)
                  IN  GeometricAccuracy(
                          scale_factor, rotation_angle, position_error,
                          calculate_overall_accuracy(
                              scale_factor, rotation_angle, position_error,
                              expected_shape))

\* f"{x:.1f}": x in tenths, rounded to nearest, ties to even.
FormatTenths(x) ==
    LET scaled == x[1] * 10
        q == scaled \div x[2]
        twice_rest == 2 * (scaled - q * x[2])
    IN  IF twice_rest > x[2] \/ (twice_rest = x[2] /\ q % 2 = 1)
        THEN q + 1 ELSE q

\* FeedbackParts with the thresholds taken from expected['tolerance'].
FeedbackPartsByTolerance(detected_shape, accuracy, expected) ==
    LET tolerances == Get(expected, "tolerance", <<>>)
    IN  (IF detected_shape.shape_type
              # Get(expected, "shape_type", NoShapeType)
         THEN <<[sentence |-> "Expected a different shape",
                 expected |-> Get(expected, "shape_type", "shape"),
                 detected |-> detected_shape.shape_type]>>
         ELSE <<>>)
        \o (IF RLt(Get(tolerances, "scale", DefaultTolerances.scale),
                   RAbs(RSub(accuracy.scale_factor, RInt(1))))
            THEN (IF RLt(RInt(1), accuracy.scale_factor)
                  THEN <<[sentence |-> "The shape is drawn too large"]>>
                  ELSE <<[sentence |-> "The shape is drawn too small"]>>)
            ELSE <<>>)
        \o (IF RLt(Get(tolerances, "rotation", DefaultTolerances.rotation),
                   RAbs(accuracy.rotation_angle))
            THEN <<[sentence |-> "The shape is rotated",
                    tenths |-> FormatTenths(accuracy.rotation_angle)]>>
            ELSE <<>>)
        \o (IF RLt(Get(tolerances, "position", DefaultTolerances.position),
                   accuracy.position_error)
            THEN <<[sentence |->
                        "The shape is not positioned correctly on the grid"]>>
            ELSE <<>>)

\* The sentences of _generate_visual_feedback, in order.
FeedbackParts(detected_shape, accuracy, expected) ==
    (IF detected_shape.shape_type # Get(expected, "shape_type", NoShapeType)
     THEN <<[sentence |-> "Expected a different shape",
             expected |-> Get(expected, "shape_type", "shape"),
             detected |-> detected_shape.shape_type]>>
     ELSE <<>>)
    \o (IF RLt(Rat(1, 10), RAbs(RSub(accuracy.scale_factor, RInt(1))))
        THEN (IF RLt(RInt(1), accuracy.scale_factor)
              THEN <<[sentence |-> "The shape is drawn too large"]>>
              ELSE <<[sentence |-> "The shape is drawn too small"]>>)
        ELSE <<>>)
    \o (IF RLt(RInt(5), RAbs(accuracy.rotation_angle))
        THEN <<[sentence |-> "The shape is rotated",
                tenths |-> FormatTenths(accuracy.rotation_angle)]>>
        ELSE <<>>)
    \o (IF RLt(RInt(1), accuracy.position_error)
        THEN <<[sentence |->
                    "The shape is not positioned correctly on the grid"]>>
        ELSE <<>>)

generate_visual_feedback(detected_shape, accuracy, expected) ==
    LET feedback_parts == FeedbackParts(detected_shape, accuracy, expected)
    IN  IF feedback_parts = <<>>
        THEN <<[sentence |->
                    "Excellent! The shape is drawn correctly with proper scale, rotation, and position."]>>
        ELSE feedback_parts

----------------------------------------------------------------------------
(* ConfidenceScorer.calculate_geometric_confidence.                        *)

ScaleFactors == {RInt(0), RInt(1), Rat(11, 10), RInt(2)}
RotationAngles == {RInt(-180), RInt(0), RInt(5), RInt(10)}
PositionErrors == {RInt(-2), RInt(0), RInt(1), RInt(3), Infinity}

\* The geometric_accuracy dicts: each key present or absent.
GeometricAccuracies ==
    {Field("scale_factor", sf) @@ Field("rotation_angle", ra)
         @@ Field("position_error", pe) :
        sf \in Optional(ScaleFactors), ra \in Optional(RotationAngles),
        pe \in Optional(PositionErrors)}

\* The weighted sum without the cap at 1.0.
GeometricUncapped(geometric_confidence) == geometric_confidence

\* min(1.0, geometric_confidence)
GeometricCapped(geometric_confidence) ==
    RMin(RInt(1), geometric_confidence)

\* What one call of calculate_geometric_confidence does.
GeometricOutcome(accuracy) ==
    IF accuracy = <<>>
    THEN [pc |-> "returned", exception |-> "", returned |-> <<RInt(0)>>]
    ELSE LET scale_factor == Get(accuracy, "scale_factor", RInt(1))
             rotation_angle == Get(accuracy, "rotation_angle", RInt(0))
             position_error == Get(accuracy, "position_error", RInt(0))
             scale_confidence ==
                 SubScore(RAbs(RSub(scale_factor, RInt(1))), Rat(2, 10))
             rotation_confidence == SubScore(RAbs(rotation_angle), RInt(10))
             position_confidence == SubScore(position_error, RInt(2))
             geometric_confidence ==
                 RAdd(RAdd(RMul(scale_confidence, Rat(3, 10)),
                           RMul(rotation_confidence, Rat(3, 10))),
                      RMul(position_confidence, Rat(4, 10)))
         IN  [pc |-> "returned", exception |-> "",
              returned |-> <<GeometricCapped(geometric_confidence)>>]

InitGeometric ==
    /\ callee = "calculate_geometric_confidence"
    /\ pc = "call"
    /\ arg_geometric_accuracy \in GeometricAccuracies
    /\ returned = <<>>
    /\ exception = ""
    /\ IdleCriteria
    /\ IdleCombine
    /\ IdleBoundary
    /\ marking_results = <<>>
    /\ arg_expected_answer = <<>>
    /\ embedding_similarity = <<>>
    /\ arg_detected_shape = <<>>
    /\ arg_expected_shape = <<>>
    /\ self_grid_spacing = <<>>
    /\ arg_image = <<>>
    /\ NoSharedCalls

calculate_geometric_confidence ==
    /\ callee = "calculate_geometric_confidence"
    /\ pc = "call"
    /\ LET out == GeometricOutcome(arg_geometric_accuracy)
       IN  /\ pc' = out.pc
           /\ exception' = out.exception
           /\ returned' = out.returned
    /\ UNCHANGED <<callee, criteriaVars, combineVars, boundaryVars, otherVars>>

----------------------------------------------------------------------------
(* The four confidence functions that take numbers from other components:  *)
(* a call of any one of them.                                              *)

InitConfidence ==
    \/ InitEmbedding
    \/ InitAgreement
    \/ InitGeometric
    \/ InitCombine

NextConfidence ==
    \/ calculate_embedding_confidence
    \/ calculate_model_agreement_confidence
    \/ calculate_geometric_confidence
    \/ combine_confidence_scores

SpecConfidence == InitConfidence /\ [][NextConfidence]_vars

\* C16: every value that calculate_embedding_confidence,
\* calculate_model_agreement_confidence, calculate_geometric_confidence or
\* combine_confidence_scores returns lies in [0, 1], whatever the inputs:
\* similarities and scores outside [0, 1], negative weights, marks above the
\* total, a position_error of +infinity.
C16_ReturnedValuesInUnitInterval ==
    (/\ callee \in {"calculate_embedding_confidence",
                    "calculate_model_agreement_confidence",
                    "calculate_geometric_confidence",
                    "combine_confidence_scores"}
     /\ pc = "returned")
    => /\ returned # <<>>
       /\ returned[1][2] > 0
       /\ 0 <= returned[1][1]
       /\ returned[1][1] <= returned[1][2]

\* calculate_geometric_confidence returned for a position_error of
\* +infinity and a scale and rotation that are exact: 0.6.
C16_Witness ==
    /\ callee = "calculate_geometric_confidence"
    /\ pc = "returned"
    /\ arg_geometric_accuracy # <<>>
    /\ Get(arg_geometric_accuracy, "position_error", RInt(0)) = Infinity
    /\ returned = <<Rat(6, 10)>>

\* C26: calculate_geometric_confidence applied to the measurements of a
\* hard-mismatch grading result (scale_factor 0, rotation_angle 0,
\* position_error +infinity) returns 0.0: an incomparable shape never gets
\* a positive geometric confidence.
C26_MismatchMeasurementsScoreZero ==
    (/\ callee = "calculate_geometric_confidence"
     /\ pc # "call"
     /\ arg_geometric_accuracy
          = [scale_factor |-> MismatchAccuracy.scale_factor,
             rotation_angle |-> MismatchAccuracy.rotation_angle,
             position_error |-> MismatchAccuracy.position_error])
    => /\ pc = "returned"
       /\ returned = <<(<<0, 1>>)>>

----------------------------------------------------------------------------
(* VisualMarker.mark_visual_question.  Loading the image and detecting the *)
(* shapes is the image library's work: its outcome is an input.            *)

DetectedShape(t, v, c) ==
    [shape_type |-> t, vertices |-> v, confidence |-> c]

RECURSIVE BestShapeIndexLast(_, _)
\* BestShapeIndex keeping the last shape of the highest confidence.
BestShapeIndexLast(shapes, i) ==
    IF i = Len(shapes) THEN i
    ELSE LET rest == BestShapeIndexLast(shapes, i + 1)
         IN  IF RLeq(shapes[i].confidence, shapes[rest].confidence)
             THEN rest ELSE i

RECURSIVE BestShapeIndex(_, _)
\* max(detected_shapes, key=lambda s: s.confidence): the first shape of the
\* highest confidence, searched from position i on.
BestShapeIndex(shapes, i) ==
    IF i = Len(shapes) THEN i
    ELSE LET rest == BestShapeIndex(shapes, i + 1)
         IN  IF RLt(shapes[i].confidence, shapes[rest].confidence)
             THEN rest ELSE i

\* The exception, if any, that grading the shape raises.
GradingRaises(detected_shape, expected_answer, grid_spacing) ==
    IF ~IsDict(expected_answer) THEN "AttributeError"
    ELSE IF /\ detected_shape.shape_type
                 = Get(expected_answer, "shape_type", NoShapeType)
            /\ Get(expected_answer, "vertices", <<>>) # <<>>
            /\ Len(detected_shape.vertices)
                 = Len(Get(expected_answer, "vertices", <<>>))
            /\ ToleranceRaises(expected_answer)
    THEN "ZeroDivisionError"
    ELSE ""

\* ErrorResult with a confidence of 1/2.
ErrorResultHalfConfident(error) ==
    [confidence |-> Rat(1, 2),
     feedback |-> <<[sentence |-> "Error processing image", error |-> error]>>,
     geometric_accuracy |-> <<>>,
     detected_shapes |-> <<>>]

\* The dict returned by the except clause.
ErrorResult(error) ==
    [confidence |-> RInt(0),
     feedback |-> <<[sentence |-> "Error processing image", error |-> error]>>,
     geometric_accuracy |-> <<>>,
     detected_shapes |-> <<>>]

NoShapesResult ==
    [confidence |-> RInt(0),
     feedback |-> <<[sentence |-> "No shapes detected in the image"]>>,
     geometric_accuracy |-> <<>>,
     detected_shapes |-> <<>>]

\* One call: the dict returned, and the exception caught on the way, if any.
mark_visual_question(image, expected_answer, grid_spacing) ==
    IF image.load # "loaded"
    THEN [result |-> ErrorResult(image.load), caught |-> image.load]
    ELSE IF image.shapes = <<>>
    THEN [result |-> NoShapesResult, caught |-> ""]
    ELSE LET detected_shapes == image.shapes
             best_shape == detected_shapes[BestShapeIndex(detected_shapes, 1)]
             raised == GradingRaises(best_shape, expected_answer, grid_spacing)
         IN  IF raised # ""
             THEN [result |-> ErrorResult(raised), caught |-> raised]
             ELSE LET geometric_accuracy ==
                          grade_geometric_accuracy(best_shape, expected_answer,
                                                   grid_spacing)
                  IN  [result |->
                           [confidence |-> geometric_accuracy.overall_accuracy,
                            feedback |->
                                generate_visual_feedback(
                                    best_shape, geometric_accuracy,
                                    expected_answer),
                            geometric_accuracy |-> <<geometric_accuracy>>,
                            detected_shapes |->
                                [i \in 1..Len(detected_shapes) |->
                                    [type |-> detected_shapes[i].shape_type,
                                     vertices |-> detected_shapes[i].vertices,
                                     confidence |->
                                         detected_shapes[i].confidence]]],
                        caught |-> ""]

----------------------------------------------------------------------------
(* python_integration.py: the three mode functions.  A request is what the *)
(* function reads: the outcome of reading and parsing the input, the       *)
(* parsed data, and for visual mode the image library's results.  A JSON   *)
(* object is a record holding the keys present; a JSON string is           *)
(* [str |-> text] and a JSON number in a string's place is [num |-> n].    *)

\* The exceptions open() and json.load()/json.loads() raise.
ReadFailures == {"FileNotFoundError", "JSONDecodeError"}

Str(text) == [str |-> text]
IsStr(value) == "str" \in DOMAIN value

BoundaryAnswers == {<<>>, <<"a", "B">>, <<"B", "a", "B">>}

\* The entries of a mark_scheme list of the input.
CriterionData ==
    {<<>>, NotADict,
     [keywords |-> <<>>],
     [keywords |-> <<<<"A", "b">>>>],
     [keywords |-> <<<<"b", "a">>>>, marks |-> 2],
     [description |-> <<"a", "B">>,
      keywords |-> <<<<"A", "b">>, <<"b", "a">>, <<"A", "b">>>>,
      marks |-> 2, tolerance |-> Rat(1, 2)],
     [description |-> <<"a", "B">>,
      keywords |-> <<<<"A", "b">>, <<"b", "a">>, <<"A", "b">>>>,
      partial_credit_keywords |-> <<<<"A", "b">>>>]}

CriteriaRequestData ==
    {NotADict}
    \cup {Field("student_answer", a) @@ Field("mark_scheme", m)
              @@ Field("llm_feedback", f) :
            a \in Optional({Str(t) : t \in BoundaryAnswers} \cup {[num |-> 5]}),
            m \in Optional(SeqsUpTo(CriterionData, MaxCriteria)),
            f \in Optional({Str(<<>>)})}

AgreementRequestData ==
    {NotADict}
    \cup {Field("marking_results", r) : r \in Optional(MarkingResultLists)}

\* Criterion(...) of lines 35-41 for one entry of the list.
CriterionFromData(criterion_data) ==
    Criterion(Get(criterion_data, "description", <<>>),
              Get(criterion_data, "marks", 1),
              Get(criterion_data, "keywords", <<>>),
              Get(criterion_data, "partial_credit_keywords", <<>>),
              Get(criterion_data, "tolerance", DefaultTolerance))

\* The error_output of run_confidence_scoring.
ConfidenceErrorOutput(e) ==
    [success |-> FALSE,
     error |-> e,
     confidence_score |-> Rat(5, 10),
     criteria_matched |-> 0,
     total_criteria |-> 1,
     partial_credit_details |-> <<>>,
     reasoning |-> [head |-> "Error occurred", error |-> e]]

\* The call of the scorer on lines 48-50.  A student_answer that is not a
\* string is touched by the loop over the criteria only, so with an empty
\* scheme it plays no part.
ScorerCall(data) ==
    LET mark_scheme_data == Get(data, "mark_scheme", <<>>)
        answer == Get(data, "student_answer", Str(<<>>))
        mark_scheme_list == [i \in 1..Len(mark_scheme_data) |->
                                CriterionFromData(mark_scheme_data[i])]
    IN  IF mark_scheme_list # <<>> /\ ~IsStr(answer)
        THEN [pc |-> "raised", exception |-> "AttributeError",
              returned |-> <<>>]
        ELSE CallOutcome(IF IsStr(answer) THEN answer.str ELSE <<>>,
                         mark_scheme_list,
                         Get(data, "llm_feedback", Str(<<>>)).str)

\* The exception raised inside the try block of run_confidence_scoring, ""
\* if none: reading, data.get, criterion_data.get, then the scorer.
ConfidenceFailure(req) ==
    IF req.read # "" THEN req.read
    ELSE IF ~IsDict(req.data) THEN "AttributeError"
    ELSE LET mark_scheme_data == Get(req.data, "mark_scheme", <<>>)
         IN  IF \E i \in 1..Len(mark_scheme_data) :
                    ~IsDict(mark_scheme_data[i])
             THEN "AttributeError"
             ELSE ScorerCall(req.data).exception

\* The object run_confidence_scoring prints.
ConfidenceOutput(req) ==
    IF ConfidenceFailure(req) # ""
    THEN ConfidenceErrorOutput(ConfidenceFailure(req))
    ELSE LET confidence_result == ScorerCall(req.data).returned[1]
         IN  [confidence_score |-> confidence_result.confidence_score,
              criteria_matched |-> confidence_result.criteria_matched,
              total_criteria |-> confidence_result.total_criteria,
              partial_credit_details |->
                  confidence_result.partial_credit_details,
              reasoning |-> confidence_result.reasoning,
              success |-> TRUE]

\* The error_output of run_agreement_confidence.
AgreementErrorOutput(e) ==
    [success |-> FALSE, error |-> e, confidence_score |-> RInt(0)]

AgreementFailure(req) ==
    IF req.read # "" THEN req.read
    ELSE IF ~IsDict(req.data) THEN "AttributeError"
    ELSE AgreementOutcome(Get(req.data, "marking_results", <<>>)).exception

\* The object run_agreement_confidence prints.
AgreementOutput(req) ==
    IF AgreementFailure(req) # ""
    THEN AgreementErrorOutput(AgreementFailure(req))
    ELSE [success |-> TRUE,
          confidence_score |->
              AgreementOutcome(
                  Get(req.data, "marking_results", <<>>)).returned[1]]

\* The detected shapes of the model, in pixels, and the expected answers, in
\* grid units.  The coordinates keep every distance and angle rational.
DetectedShapes ==
    {DetectedShape("triangle", <<Point(0, 0), Point(200, 0), Point(200, 150)>>,
                   Rat(9, 10)),
     DetectedShape("triangle", <<Point(0, 0), Point(400, 0), Point(400, 300)>>,
                   Rat(8, 10)),
     DetectedShape("triangle", <<Point(200, 150), Point(0, 150), Point(0, 0)>>,
                   Rat(9, 10)),
     DetectedShape("triangle", <<Point(350, 0), Point(350, 200),
                                 Point(200, 200)>>, RInt(1)),
     DetectedShape("rectangle", <<Point(0, 0), Point(200, 0), Point(200, 150),
                                  Point(0, 150)>>, Rat(1, 2))}

ExpectedTriangle ==
    [shape_type |-> "triangle",
     vertices |-> <<Point(0, 0), Point(4, 0), Point(4, 3)>>]

ExpectedAnswers ==
    {ExpectedTriangle,
     [shape_type |-> "triangle"],
     [shape_type |-> "triangle",
      vertices |-> <<Point(0, 0), Point(4, 0), Point(4, 3)>>,
      tolerance |-> [scale |-> RInt(0)]],
     [shape_type |-> "triangle",
      vertices |-> <<Point(0, 0), Point(4, 0), Point(4, 3)>>,
      tolerance |-> [scale |-> RInt(1), rotation |-> RInt(180),
                     position |-> RInt(10)]],
     [shape_type |-> "rectangle",
      vertices |-> <<Point(0, 0), Point(4, 0), Point(4, 3), Point(0, 3)>>],
     NotADict}

----------------------------------------------------------------------------
(* VisualMarker.grade_geometric_accuracy as a state machine: one call.     *)

\* Further detected shapes: no vertices, two vertices, a triangle drawn in
\* grid units, flat triangles of unequal or zero-length edges, and a single
\* point.
GradedShapes ==
    DetectedShapes
    \cup {DetectedShape("triangle", <<>>, RInt(1)),
          DetectedShape("line", <<Point(0, 0), Point(200, 0)>>, RInt(1)),
          DetectedShape("triangle", <<Point(0, 0), Point(4, 0), Point(4, 3)>>,
                        RInt(1)),
          DetectedShape("triangle", <<Point(600, 450), Point(200, 450),
                                      Point(200, 150)>>, RInt(1)),
          DetectedShape("triangle", <<Point(0, 0), Point(400, 0),
                                      Point(550, 0)>>, RInt(1)),
          DetectedShape("triangle", <<Point(0, 0), Point(200, 0),
                                      Point(200, 0)>>, RInt(1)),
          DetectedShape("point", <<Point(50, 50)>>, RInt(1))}

ExpectedShapes ==
    ExpectedAnswers
    \cup {<<>>,
          [vertices |-> <<Point(0, 0), Point(4, 0), Point(4, 3)>>],
          [shape_type |-> "triangle", vertices |-> <<>>],
          [shape_type |-> "line",
           vertices |-> <<Point(0, 0), Point(4, 0)>>],
          [shape_type |-> "triangle",
           vertices |-> <<Point(0, 0), Point(4, 0), Point(4, 3)>>,
           tolerance |-> [rotation |-> RInt(0)]],
          [shape_type |-> "triangle",
           vertices |-> <<Point(0, 0), Point(4, 0), Point(4, 3)>>,
           tolerance |-> [position |-> RInt(5)]],
          [shape_type |-> "triangle",
           vertices |-> <<Point(0, 0), Point(4, 0), Point(7, 0)>>],
          [shape_type |-> "triangle",
           vertices |-> <<Point(0, 0), Point(4, 0), Point(4, 0)>>],
          [shape_type |-> "point", vertices |-> <<Point(1, 1)>>]}

GridSpacings == {RInt(1), RInt(50), RInt(100)}

\* Whether the shapes get past the mismatch tests of lines 215-234.
Comparable(shape, expected) ==
    /\ shape.shape_type = Get(expected, "shape_type", NoShapeType)
    /\ Get(expected, "vertices", <<>>) # <<>>
    /\ Len(shape.vertices) = Len(Get(expected, "vertices", <<>>))

\* Whether every distance and angle of the comparison is rational.
RationalComparison(grid_vertices, expected_vertices) ==
    LET n == Len(grid_vertices)
    IN  /\ \A i \in 1..(n - 1) :
              /\ HasRoot(SquaredDistance(grid_vertices[i],
                                         grid_vertices[i + 1]))
              /\ HasRoot(SquaredDistance(expected_vertices[i],
                                         expected_vertices[i + 1]))
        /\ \A i \in 1..n :
              HasRoot(SquaredDistance(grid_vertices[i], expected_vertices[i]))
        /\ n < 2 \/ PositiveOnly(EdgeLengths(grid_vertices, n)) # <<>>
        /\ \A i \in 2..n :
              LET d_vec == VectorFromFirst(grid_vertices, i)
                  e_vec == VectorFromFirst(expected_vertices, i)
              IN  (NonZero(d_vec) /\ NonZero(e_vec)) =>
                     /\ HasRoot(Dot(d_vec, d_vec))
                     /\ HasRoot(Dot(e_vec, e_vec))
                     /\ CosAngle(d_vec, e_vec) \in ExactCosines

\* The calls the model makes: those computed in rationals.
Gradable(shape, expected, spacing) ==
    IF ~IsDict(expected) THEN TRUE
    ELSE IF ~Comparable(shape, expected) THEN TRUE
    ELSE RationalComparison(pixels_to_grid(shape.vertices, spacing),
                            expected.vertices)

\* What one call of grade_geometric_accuracy does.
GradeOutcome(shape, expected, spacing) ==
    IF GradingRaises(shape, expected, spacing) # ""
    THEN [pc |-> "raised",
          exception |-> GradingRaises(shape, expected, spacing),
          returned |-> <<>>]
    ELSE [pc |-> "returned", exception |-> "",
          returned |-> <<grade_geometric_accuracy(shape, expected, spacing)>>]

InitGrade ==
    /\ callee = "grade_geometric_accuracy"
    /\ pc = "call"
    /\ arg_detected_shape \in GradedShapes
    /\ arg_expected_shape \in ExpectedShapes
    /\ self_grid_spacing \in GridSpacings
    /\ Gradable(arg_detected_shape, arg_expected_shape, self_grid_spacing)
    /\ returned = <<>>
    /\ exception = ""
    /\ IdleCriteria
    /\ IdleCombine
    /\ IdleBoundary
    /\ marking_results = <<>>
    /\ arg_expected_answer = <<>>
    /\ embedding_similarity = <<>>
    /\ arg_geometric_accuracy = <<>>
    /\ arg_image = <<>>
    /\ NoSharedCalls

call_grade_geometric_accuracy ==
    /\ callee = "grade_geometric_accuracy"
    /\ pc = "call"
    /\ LET out == GradeOutcome(arg_detected_shape, arg_expected_shape,
                               self_grid_spacing)
       IN  /\ pc' = out.pc
           /\ exception' = out.exception
           /\ returned' = out.returned
    /\ UNCHANGED <<callee, criteriaVars, combineVars, boundaryVars, otherVars>>

NextGrade == call_grade_geometric_accuracy

SpecGrade == InitGrade /\ [][NextGrade]_vars

\* The three cases of a hard mismatch, read off the arguments.
TypeDiffers ==
    arg_detected_shape.shape_type
        # (IF "shape_type" \in DOMAIN arg_expected_shape
           THEN arg_expected_shape.shape_type ELSE NoShapeType)
ExpectedVertexList ==
    IF "vertices" \in DOMAIN arg_expected_shape
    THEN arg_expected_shape.vertices ELSE <<>>
CountDiffers == Len(arg_detected_shape.vertices) # Len(ExpectedVertexList)

\* C17: when the detected shape_type differs from the expected one, or the
\* vertex counts differ, or the expected vertex list is empty,
\* grade_geometric_accuracy returns scale_factor 0, rotation_angle 0,
\* position_error +infinity and overall_accuracy 0, never a partial score.
C17_HardMismatchSentinel ==
    (/\ callee = "grade_geometric_accuracy"
     /\ pc # "call"
     /\ IsDict(arg_expected_shape)
     /\ TypeDiffers \/ CountDiffers \/ ExpectedVertexList = <<>>)
    => /\ pc = "returned"
       /\ returned = <<[scale_factor |-> <<0, 1>>,
                        rotation_angle |-> <<0, 1>>,
                        position_error |-> <<1, 0>>,
                        overall_accuracy |-> <<0, 1>>]>>

\* A detected triangle of no vertices against an expected triangle of
\* three: the types agree, the counts differ.
C17_Witness ==
    /\ callee = "grade_geometric_accuracy"
    /\ pc = "returned"
    /\ IsDict(arg_expected_shape)
    /\ ~TypeDiffers
    /\ CountDiffers
    /\ Len(ExpectedVertexList) = 3
    /\ returned[1].position_error = Infinity

\* The tolerance the expected shape gives for a measure, or the default.
ToleranceFor(measure, default) ==
    IF "tolerance" \in DOMAIN arg_expected_shape
       /\ measure \in DOMAIN arg_expected_shape.tolerance
    THEN arg_expected_shape.tolerance[measure]
    ELSE default

\* max(0, 1 - deviation / tolerance) for deviation >= 0 and tolerance > 0,
\* compared on numerators and denominators.
LinearDecay(deviation, tolerance) ==
    IF deviation[1] * tolerance[2] >= tolerance[1] * deviation[2]
    THEN <<0, 1>>
    ELSE RSub(<<1, 1>>, RDiv(deviation, tolerance))

\* The three deviations of the result returned.
ScaleDeviation == RAbs(RSub(returned[1].scale_factor, <<1, 1>>))
RotationDeviation == RAbs(returned[1].rotation_angle)
PositionDeviation == returned[1].position_error

\* The call compared two comparable shapes and returned.
ComparedAndReturned ==
    /\ callee = "grade_geometric_accuracy"
    /\ pc = "returned"
    /\ IsDict(arg_expected_shape)
    /\ ~TypeDiffers
    /\ ~CountDiffers
    /\ ExpectedVertexList # <<>>

\* C18: for comparable shapes and positive tolerances, overall_accuracy is
\* 0.3 * max(0, 1 - |scale_factor - 1| / t_scale)
\* + 0.3 * max(0, 1 - |rotation_angle| / t_rotation)
\* + 0.4 * max(0, 1 - position_error / t_position) cut to [0, 1], with the
\* tolerances of expected_shape.tolerance or 0.1, 5.0 and 1.0; it lies in
\* [0, 1] and is 0 when each deviation is at or beyond its tolerance.
C18_OverallAccuracyFormula ==
    ComparedAndReturned
    => LET t_scale == ToleranceFor("scale", <<1, 10>>)
           t_rotation == ToleranceFor("rotation", <<5, 1>>)
           t_position == ToleranceFor("position", <<1, 1>>)
           weighted ==
               RAdd(RAdd(RMul(<<3, 10>>, LinearDecay(ScaleDeviation, t_scale)),
                         RMul(<<3, 10>>,
                              LinearDecay(RotationDeviation, t_rotation))),
                    RMul(<<4, 10>>,
                         LinearDecay(PositionDeviation, t_position)))
           overall == returned[1].overall_accuracy
       IN  /\ overall = CutToUnit(weighted)
           /\ 0 <= overall[1] /\ overall[1] <= overall[2]
           /\ (/\ RGeq(ScaleDeviation, t_scale)
               /\ RGeq(RotationDeviation, t_rotation)
               /\ RGeq(PositionDeviation, t_position))
              => overall = <<0, 1>>

\* A triangle turned by 90 degrees, graded with tolerances 1, 180 and 10:
\* the scale is exact, the rotation and the position score in part.
C18_Witness ==
    /\ ComparedAndReturned
    /\ "tolerance" \in DOMAIN arg_expected_shape
    /\ returned[1].scale_factor = <<1, 1>>
    /\ returned[1].rotation_angle = <<90, 1>>
    /\ returned[1].position_error = <<13, 3>>
    /\ returned[1].overall_accuracy = <<203, 300>>

\* A triangle twice the size and turned by 180 degrees, graded with the
\* default tolerances: every deviation is beyond its tolerance.
C18_WitnessAllBeyond ==
    /\ ComparedAndReturned
    /\ "tolerance" \notin DOMAIN arg_expected_shape
    /\ returned[1].scale_factor = <<2, 1>>
    /\ returned[1].rotation_angle = <<180, 1>>
    /\ returned[1].position_error = <<8, 1>>
    /\ returned[1].overall_accuracy = <<0, 1>>

\* The length of edge i of the detected shape, in grid units, and of the
\* expected shape: the distance from vertex i to vertex i + 1.
DetectedEdge(i) ==
    RDiv(Dist(arg_detected_shape.vertices[i],
              arg_detected_shape.vertices[i + 1]),
         self_grid_spacing)
ExpectedEdge(i) == Dist(ExpectedVertexList[i], ExpectedVertexList[i + 1])

\* The consecutive-vertex edges, and those of positive length.
Edges == 1..(Len(ExpectedVertexList) - 1)
PositiveDetected == {i \in Edges : DetectedEdge(i)[1] > 0}
PositiveExpected == {i \in Edges : ExpectedEdge(i)[1] > 0}

RECURSIVE DetectedEdgeSum(_)
DetectedEdgeSum(k) ==
    IF k = 0 THEN <<0, 1>> ELSE RAdd(DetectedEdge(k), DetectedEdgeSum(k - 1))

RECURSIVE ExpectedEdgeSum(_)
ExpectedEdgeSum(k) ==
    IF k = 0 THEN <<0, 1>> ELSE RAdd(ExpectedEdge(k), ExpectedEdgeSum(k - 1))

RECURSIVE EdgeRatioSum(_)
\* The sum of detected / expected over the edges 1..k with both lengths
\* positive.
EdgeRatioSum(k) ==
    IF k = 0 THEN <<0, 1>>
    ELSE RAdd(IF k \in PositiveDetected \cap PositiveExpected
              THEN RDiv(DetectedEdge(k), ExpectedEdge(k)) ELSE <<0, 1>>,
              EdgeRatioSum(k - 1))

\* C22 as stated: for comparable shapes scale_factor is the mean, over the
\* corresponding consecutive-vertex edges of positive length, of the ratio
\* detected edge length / expected edge length.
C22_ScaleFactorMeanOfRatios ==
    (ComparedAndReturned /\ PositiveDetected \cap PositiveExpected # {})
    => RMul(returned[1].scale_factor,
            <<Cardinality(PositiveDetected \cap PositiveExpected), 1>>)
         = EdgeRatioSum(Len(ExpectedVertexList) - 1)

\* C22, amended: for comparable shapes scale_factor is the mean of the
\* positive detected edge lengths divided by the mean of the positive
\* expected edge lengths, each list taken over the consecutive-vertex edges;
\* it is 1.0 with fewer than two vertices or no expected edge of positive
\* length.
C22_ScaleFactorRatioOfMeans ==
    (ComparedAndReturned /\ PositiveDetected # {})
    => IF PositiveExpected = {}
       THEN returned[1].scale_factor = <<1, 1>>
       ELSE RMul(RMul(returned[1].scale_factor,
                      ExpectedEdgeSum(Len(ExpectedVertexList) - 1)),
                 <<Cardinality(PositiveDetected), 1>>)
              = RMul(DetectedEdgeSum(Len(ExpectedVertexList) - 1),
                     <<Cardinality(PositiveExpected), 1>>)

\* Detected edges of 8 and 3 grid units against expected edges of 4 and 3:
\* the ratio of the means is 11/7, the mean of the ratios 3/2.
C22_Witness ==
    /\ ComparedAndReturned
    /\ Len(ExpectedVertexList) = 3
    /\ DetectedEdge(1) = <<8, 1>> /\ DetectedEdge(2) = <<3, 1>>
    /\ ExpectedEdge(1) = <<4, 1>> /\ ExpectedEdge(2) = <<3, 1>>
    /\ returned[1].scale_factor = <<11, 7>>

\* A detected edge of zero length is left out of the detected mean only:
\* edges of 4 and 0 against 4 and 3 give 4 / 3.5.
C22_WitnessZeroEdge ==
    /\ ComparedAndReturned
    /\ Len(ExpectedVertexList) = 3
    /\ DetectedEdge(1) = <<4, 1>> /\ DetectedEdge(2) = <<0, 1>>
    /\ ExpectedEdge(1) = <<4, 1>> /\ ExpectedEdge(2) = <<3, 1>>
    /\ returned[1].scale_factor = <<8, 7>>

----------------------------------------------------------------------------
(* VisualMarker._generate_visual_feedback as a state machine: one call.    *)

\* The measurements given to the call: binary fractions, so that the float
\* comparisons with 0.1, 5.0 and 1.0 are exact.
FeedbackScaleFactors ==
    {RInt(0), Rat(3, 4), Rat(15, 16), RInt(1), Rat(17, 16), Rat(9, 8),
     RInt(2)}
FeedbackRotationAngles ==
    {RInt(-180), RInt(-5), RInt(0), RInt(5), Rat(11, 2), RInt(90)}
FeedbackPositionErrors == {RInt(-2), RInt(0), RInt(1), Rat(3, 2), Infinity}

FeedbackAccuracies ==
    {GeometricAccuracy(s, r, p, RInt(0)) :
        s \in FeedbackScaleFactors, r \in FeedbackRotationAngles,
        p \in FeedbackPositionErrors}

FeedbackShapes == {s \in DetectedShapes : s.confidence \in {RInt(1), Rat(1, 2)}}

\* What one call of _generate_visual_feedback does: expected.get raises on
\* an expected answer that is not a dict.
FeedbackOutcome(detected_shape, accuracy, expected) ==
    IF ~IsDict(expected)
    THEN [pc |-> "raised", exception |-> "AttributeError", returned |-> <<>>]
    ELSE [pc |-> "returned", exception |-> "",
          returned |->
              <<generate_visual_feedback(detected_shape, accuracy, expected)>>]

InitFeedback ==
    /\ callee = "generate_visual_feedback"
    /\ pc = "call"
    /\ arg_detected_shape \in FeedbackShapes
    /\ arg_geometric_accuracy \in FeedbackAccuracies
    /\ arg_expected_shape \in ExpectedShapes
    /\ returned = <<>>
    /\ exception = ""
    /\ IdleCriteria
    /\ IdleCombine
    /\ IdleBoundary
    /\ marking_results = <<>>
    /\ arg_expected_answer = <<>>
    /\ embedding_similarity = <<>>
    /\ self_grid_spacing = <<>>
    /\ arg_image = <<>>
    /\ NoSharedCalls

call_generate_visual_feedback ==
    /\ callee = "generate_visual_feedback"
    /\ pc = "call"
    /\ LET out == FeedbackOutcome(arg_detected_shape, arg_geometric_accuracy,
                                  arg_expected_shape)
       IN  /\ pc' = out.pc
           /\ exception' = out.exception
           /\ returned' = out.returned
    /\ UNCHANGED <<callee, criteriaVars, combineVars, boundaryVars, otherVars>>

NextFeedback == call_generate_visual_feedback

SpecFeedback == InitFeedback /\ [][NextFeedback]_vars

\* The sentences of a feedback, without their parameters.
Sentences(feedback) == [i \in 1..Len(feedback) |-> feedback[i].sentence]

ExcellentSentence ==
    "Excellent! The shape is drawn correctly with proper scale, rotation, and position."

\* The four conditions, read off the arguments with the fixed thresholds.
ScaleOff ==
    10 * Abs(arg_geometric_accuracy.scale_factor[1]
               - arg_geometric_accuracy.scale_factor[2])
        > arg_geometric_accuracy.scale_factor[2]
RotationOff ==
    Abs(arg_geometric_accuracy.rotation_angle[1])
        > 5 * arg_geometric_accuracy.rotation_angle[2]
PositionOff ==
    arg_geometric_accuracy.position_error[1]
        > arg_geometric_accuracy.position_error[2]

\* The sentences triggered, in the order type, scale, rotation, position.
TriggeredSentences ==
    (IF TypeDiffers THEN <<"Expected a different shape">> ELSE <<>>)
    \o (IF ScaleOff
        THEN (IF arg_geometric_accuracy.scale_factor[1]
                    > arg_geometric_accuracy.scale_factor[2]
              THEN <<"The shape is drawn too large">>
              ELSE <<"The shape is drawn too small">>)
        ELSE <<>>)
    \o (IF RotationOff THEN <<"The shape is rotated">> ELSE <<>>)
    \o (IF PositionOff
        THEN <<"The shape is not positioned correctly on the grid">>
        ELSE <<>>)

\* C23: _generate_visual_feedback returns the single 'Excellent! ...' sentence
\* iff none of these holds: the shape types differ, |scale_factor - 1| > 0.1,
\* |rotation_angle| > 5, position_error > 1.0; otherwise it returns the
\* triggered sentences in the order type, scale, rotation, position.  The
\* thresholds are fixed: expected_shape.tolerance plays no part.
C23_FeedbackSentences ==
    (callee = "generate_visual_feedback" /\ pc = "returned")
    => /\ (Sentences(returned[1]) = <<ExcellentSentence>>)
            <=> ~(TypeDiffers \/ ScaleOff \/ RotationOff \/ PositionOff)
       /\ (TypeDiffers \/ ScaleOff \/ RotationOff \/ PositionOff)
            => Sentences(returned[1]) = TriggeredSentences

\* An expected triangle with tolerances 1, 180 and 10, and a triangle with
\* scale 9/8, rotation 90 and position error 3/2: within the tolerances,
\* beyond the fixed thresholds, so three sentences.
C23_Witness ==
    /\ callee = "generate_visual_feedback"
    /\ pc = "returned"
    /\ "tolerance" \in DOMAIN arg_expected_shape
    /\ arg_expected_shape.tolerance
          = [scale |-> <<1, 1>>, rotation |-> <<180, 1>>,
             position |-> <<10, 1>>]
    /\ ~TypeDiffers
    /\ arg_geometric_accuracy.scale_factor = <<9, 8>>
    /\ arg_geometric_accuracy.rotation_angle = <<90, 1>>
    /\ arg_geometric_accuracy.position_error = <<3, 2>>
    /\ Len(returned[1]) = 3

\* Measurements exactly at the thresholds 5 and 1.0, of the expected type:
\* the single sentence.
C23_WitnessExcellent ==
    /\ callee = "generate_visual_feedback"
    /\ pc = "returned"
    /\ arg_geometric_accuracy.scale_factor = <<17, 16>>
    /\ arg_geometric_accuracy.rotation_angle = <<-5, 1>>
    /\ arg_geometric_accuracy.position_error = <<1, 1>>
    /\ Sentences(returned[1]) = <<ExcellentSentence>>

\* data.get('grid_spacing', 50.0)
DefaultGridSpacing == 50

\* What cv2 makes of the image at image_path: the exception of
\* preprocess_image/detect_shapes, or the shapes detected.
Images ==
    {[load |-> e, shapes |-> <<>>] : e \in {"ValueError", "cv2.error"}}
    \cup {[load |-> "loaded", shapes |-> shapes] :
            shapes \in SeqsUpTo(DetectedShapes, MaxShapes)}

----------------------------------------------------------------------------
(* VisualMarker.mark_visual_question as a state machine: one call.  The    *)
(* try block encloses the whole body, so the call returns.                 *)

InitMark ==
    /\ callee = "mark_visual_question"
    /\ pc = "call"
    /\ arg_image \in Images
    /\ arg_expected_answer \in ExpectedAnswers \cup {<<>>}
    /\ self_grid_spacing = RInt(DefaultGridSpacing)
    /\ returned = <<>>
    /\ exception = ""
    /\ IdleCriteria
    /\ IdleCombine
    /\ mode = ""
    /\ request = <<>>
    /\ stdout = <<>>
    /\ failure = ""
    /\ marking_results = <<>>
    /\ embedding_similarity = <<>>
    /\ arg_geometric_accuracy = <<>>
    /\ arg_detected_shape = <<>>
    /\ arg_expected_shape = <<>>
    /\ NoSharedCalls

call_mark_visual_question ==
    /\ callee = "mark_visual_question"
    /\ pc = "call"
    /\ LET out == mark_visual_question(arg_image, arg_expected_answer,
                                       self_grid_spacing)
       IN  /\ returned' = <<out.result>>
           /\ failure' = out.caught
    /\ pc' = "returned"
    /\ UNCHANGED <<callee, exception, criteriaVars, combineVars, mode,
                   request, stdout, otherVars>>

NextMark == call_mark_visual_question

SpecMark == InitMark /\ [][NextMark]_vars

\* A result of confidence 0.0 with no geometric accuracy and no shapes.
ZeroConfidenceResult(result) ==
    /\ result.confidence = <<0, 1>>
    /\ result.geometric_accuracy = <<>>
    /\ result.detected_shapes = <<>>
    /\ Len(result.feedback) = 1

\* C19: mark_visual_question never raises.  With no shapes detected it
\* returns confidence 0.0, the feedback 'No shapes detected in the image',
\* geometric_accuracy null and no detected_shapes; when loading or
\* processing the image fails it returns confidence 0.0, a feedback that
\* carries the error, geometric_accuracy null and no detected_shapes.
C19_MarkVisualQuestionDegrades ==
    (callee = "mark_visual_question" /\ pc # "call")
    => /\ pc = "returned"
       /\ exception = ""
       /\ (arg_image.load = "loaded" /\ arg_image.shapes = <<>>)
          => /\ ZeroConfidenceResult(returned[1])
             /\ returned[1].feedback[1].sentence
                   = "No shapes detected in the image"
       /\ (arg_image.load # "loaded" \/ failure # "")
          => /\ ZeroConfidenceResult(returned[1])
             /\ returned[1].feedback[1].sentence = "Error processing image"
             /\ returned[1].feedback[1].error = failure
             /\ failure # ""

\* The image loaded and a shape was found, and grading it failed on a
\* tolerance of zero: the call returned the zero-confidence result.
C19_Witness ==
    /\ callee = "mark_visual_question"
    /\ pc = "returned"
    /\ arg_image.load = "loaded"
    /\ arg_image.shapes # <<>>
    /\ failure = "ZeroDivisionError"
    /\ ZeroConfidenceResult(returned[1])

\* No shapes were detected in a loaded image.
C19_WitnessNoShapes ==
    /\ callee = "mark_visual_question"
    /\ pc = "returned"
    /\ arg_image.load = "loaded"
    /\ arg_image.shapes = <<>>
    /\ failure = ""
    /\ returned[1].feedback[1].sentence = "No shapes detected in the image"

\* The call detected at least one shape.
ShapesDetected ==
    /\ callee = "mark_visual_question"
    /\ pc = "returned"
    /\ arg_image.load = "loaded"
    /\ arg_image.shapes # <<>>

\* The first shape of the highest detection confidence.
HighestConfidence ==
    CHOOSE i \in 1..Len(arg_image.shapes) :
        /\ \A j \in 1..Len(arg_image.shapes) :
              RLeq(arg_image.shapes[j].confidence,
                   arg_image.shapes[i].confidence)
        /\ \A j \in 1..(i - 1) :
              RLt(arg_image.shapes[j].confidence,
                  arg_image.shapes[i].confidence)

\* The result is that of grading the shape of the highest confidence, and
\* lists every detected shape in detection order.
GradedHighestConfidence ==
    LET graded == GradeOutcome(arg_image.shapes[HighestConfidence],
                               arg_expected_answer, self_grid_spacing)
    IN  /\ graded.pc = "returned"
        /\ returned[1].geometric_accuracy = graded.returned
        /\ returned[1].confidence = graded.returned[1].overall_accuracy
        /\ Len(returned[1].detected_shapes) = Len(arg_image.shapes)
        /\ \A i \in 1..Len(arg_image.shapes) :
              /\ returned[1].detected_shapes[i].type
                    = arg_image.shapes[i].shape_type
              /\ returned[1].detected_shapes[i].vertices
                    = arg_image.shapes[i].vertices
              /\ returned[1].detected_shapes[i].confidence
                    = arg_image.shapes[i].confidence

C28_WitnessTie ==
    /\ ShapesDetected
    /\ failure = ""
    /\ Len(arg_image.shapes) = 2
    /\ arg_image.shapes[1].confidence = arg_image.shapes[2].confidence
    /\ HighestConfidence = 1
    /\ GradeOutcome(arg_image.shapes[2], arg_expected_answer,
                    self_grid_spacing).returned
          # returned[1].geometric_accuracy

\* The shape graded and the expected answer are a hard mismatch: the types
\* differ, the vertex counts differ, or there are no expected vertices.
GradedHardMismatch ==
    LET best_shape == arg_image.shapes[HighestConfidence]
        expected_type ==
            IF "shape_type" \in DOMAIN arg_expected_answer
            THEN arg_expected_answer.shape_type ELSE NoShapeType
        expected_vertices ==
            IF "vertices" \in DOMAIN arg_expected_answer
            THEN arg_expected_answer.vertices ELSE <<>>
    IN  \/ best_shape.shape_type # expected_type
        \/ expected_vertices = <<>>
        \/ Len(best_shape.vertices) # Len(expected_vertices)

\* C29: when grading returns the hard-mismatch sentinel (type mismatch,
\* vertex-count mismatch or empty expected vertices), the feedback composed
\* from it is never the single 'Excellent! ...' sentence.
C29_MismatchNeverExcellent ==
    (/\ ShapesDetected
     /\ failure = ""
     /\ GradedHardMismatch)
    => /\ returned[1].geometric_accuracy[1].position_error = <<1, 0>>
       /\ Sentences(returned[1].feedback) # <<ExcellentSentence>>

\* A triangle graded against an expected triangle without vertices: the
\* types agree, and the feedback names the scale and the position.
C29_Witness ==
    /\ ShapesDetected
    /\ failure = ""
    /\ GradedHardMismatch
    /\ "shape_type" \in DOMAIN arg_expected_answer
    /\ arg_image.shapes[HighestConfidence].shape_type
          = arg_expected_answer.shape_type
    /\ Sentences(returned[1].feedback)
          = <<"The shape is drawn too small",
              "The shape is not positioned correctly on the grid">>

VisualRequestData ==
    {NotADict}
    \cup {Field("image_path", p) @@ Field("expected_answer", e)
              @@ Field("grid_spacing", g) :
            p \in Optional({Str(<<"a">>)}),
            e \in Optional(ExpectedAnswers),
            g \in Optional({RInt(DefaultGridSpacing)})}

\* The error_output of run_visual_marking.
VisualErrorOutput(e) ==
    [success |-> FALSE,
     error |-> e,
     confidence |-> RInt(0),
     feedback |-> <<[sentence |-> "Error occurred", error |-> e]>>,
     geometric_accuracy |-> <<>>,
     detected_shapes |-> <<>>]

\* The call of lines 94-97.
MarkerCall(req) ==
    mark_visual_question(
        req.image,
        Get(req.data, "expected_answer", <<>>),
        Get(req.data, "grid_spacing", RInt(DefaultGridSpacing)))

\* The exception that reaches the except clause of run_visual_marking, "" if
\* none: the import, reading, data.get, and json.dumps of the vertices.
VisualFailure(req) ==
    IF ~req.cv2_installed THEN "ImportError"
    ELSE IF req.read # "" THEN req.read
    ELSE IF ~IsDict(req.data) THEN "AttributeError"
    ELSE IF /\ MarkerCall(req).result.detected_shapes # <<>>
            /\ ~req.vertices_serializable
    THEN "TypeError"
    ELSE ""

\* The first exception raised while run_visual_marking runs, whoever catches
\* it.
VisualRaised(req) ==
    IF ~req.cv2_installed \/ req.read # "" \/ ~IsDict(req.data)
    THEN VisualFailure(req)
    ELSE IF MarkerCall(req).caught # "" THEN MarkerCall(req).caught
    ELSE VisualFailure(req)

\* The object run_visual_marking prints.
VisualOutput(req) ==
    IF VisualFailure(req) # ""
    THEN VisualErrorOutput(VisualFailure(req))
    ELSE LET result == MarkerCall(req).result
         IN  [success |-> TRUE,
              confidence |-> result.confidence,
              feedback |-> result.feedback,
              geometric_accuracy |-> result.geometric_accuracy,
              detected_shapes |-> result.detected_shapes]

\* The requests of each mode.
Requests(m) ==
    CASE m = "confidence" ->
            {[read |-> r, data |-> <<>>] : r \in ReadFailures}
            \cup {[read |-> "", data |-> d] : d \in CriteriaRequestData}
      [] m = "agreement" ->
            {[read |-> r, data |-> <<>>] : r \in ReadFailures}
            \cup {[read |-> "", data |-> d] : d \in AgreementRequestData}
      [] m = "visual" ->
            {[read |-> r, data |-> <<>>, cv2_installed |-> c,
              image |-> [load |-> "loaded", shapes |-> <<>>],
              vertices_serializable |-> TRUE] :
                r \in ReadFailures, c \in BOOLEAN}
            \cup {[read |-> "", data |-> d, cv2_installed |-> c,
                   image |-> i, vertices_serializable |-> v] :
                    d \in VisualRequestData, c \in BOOLEAN, i \in Images,
                    v \in BOOLEAN}

Modes == {"confidence", "visual", "agreement"}

InitBoundary ==
    /\ callee = "main"
    /\ pc = "call"
    /\ mode \in Modes
    /\ request \in Requests(mode)
    /\ stdout = <<>>
    /\ failure = ""
    /\ NoOtherArguments
    /\ returned = <<>>
    /\ exception = ""
    /\ student_answer = <<>>
    /\ mark_scheme = <<>>
    /\ llm_feedback = <<>>
    /\ match_results = <<>>
    /\ confidence_scores = <<>>
    /\ weights = <<>>

\* Each mode function prints one object and returns None: its except clause
\* catches every Exception.
run_confidence_scoring ==
    /\ callee = "main"
    /\ pc = "call"
    /\ mode = "confidence"
    /\ stdout' = Append(stdout, ConfidenceOutput(request))
    /\ failure' = ConfidenceFailure(request)
    /\ pc' = "returned"
    /\ UNCHANGED <<callee, mode, request, returned, exception, criteriaVars,
                   combineVars, otherVars>>

run_visual_marking ==
    /\ callee = "main"
    /\ pc = "call"
    /\ mode = "visual"
    /\ stdout' = Append(stdout, VisualOutput(request))
    /\ failure' = VisualRaised(request)
    /\ pc' = "returned"
    /\ UNCHANGED <<callee, mode, request, returned, exception, criteriaVars,
                   combineVars, otherVars>>

run_agreement_confidence ==
    /\ callee = "main"
    /\ pc = "call"
    /\ mode = "agreement"
    /\ stdout' = Append(stdout, AgreementOutput(request))
    /\ failure' = AgreementFailure(request)
    /\ pc' = "returned"
    /\ UNCHANGED <<callee, mode, request, returned, exception, criteriaVars,
                   combineVars, otherVars>>

NextBoundary ==
    \/ run_confidence_scoring
    \/ run_visual_marking
    \/ run_agreement_confidence

SpecBoundary == InitBoundary /\ [][NextBoundary]_vars

\* Whether the object printed is the error payload of the mode: success
\* false, an error string, and the default value of the mode.
IsErrorPayload(m, output) ==
    /\ output.success = FALSE
    /\ "error" \in DOMAIN output
    /\ CASE m = "confidence" -> output.confidence_score = Rat(5, 10)
         [] m = "agreement" -> output.confidence_score = RInt(0)
         [] m = "visual" -> output.confidence = RInt(0)

\* C8: when run_confidence_scoring is given an empty mark_scheme (an empty
\* list, or no mark_scheme key), it fails with an error and the object it
\* prints does not carry a confidence_score of 0.5.
C8_EmptySchemeNoMisleadingScore ==
    (/\ mode = "confidence"
     /\ pc = "returned"
     /\ request.read = ""
     /\ IsDict(request.data)
     /\ Get(request.data, "mark_scheme", <<>>) = <<>>)
    => /\ Len(stdout) = 1
       /\ stdout[1].success = FALSE
       /\ "error" \in DOMAIN stdout[1]
       /\ stdout[1].confidence_score # Rat(5, 10)

\* C9: in each of the three modes, whenever an exception was raised inside
\* the mode function, the function returns having printed exactly one object,
\* which has success false, an error string and the default payload of the
\* mode; no exception escapes.
C9_FailureGivesErrorPayload ==
    (mode \in Modes /\ pc # "call" /\ failure # "")
    => /\ pc = "returned"
       /\ exception = ""
       /\ Len(stdout) = 1
       /\ IsErrorPayload(mode, stdout[1])

----------------------------------------------------------------------------
(* Calls in progress at the same time on one ConfidenceScorer and one       *)
(* VisualMarker, as threads of one process make them.  The instances, the  *)
(* mark scheme and the expected shape are shared; each call has a frame    *)
(* with its own arguments and local variables.  A scoring call advances    *)
(* one criterion of its loop at a time, so that the calls interleave.      *)

SharedSchemes ==
    {<<>>}
    \cup {scheme \in [1..2 -> SchemeCriteria] :
            /\ scheme[1].marks = 2
            /\ scheme[1].keywords = <<<<"A", "b">>, <<"b", "a">>, <<"A", "b">>>>
            /\ scheme[2].marks = 1}

SharedExpectedShapes ==
    {e \in ExpectedAnswers :
        IF IsDict(e)
        THEN "vertices" \in DOMAIN e /\ e.shape_type = "triangle"
        ELSE FALSE}

SharedDetectedShapes ==
    {shape \in DetectedShapes : shape.confidence \in {Rat(8, 10), Rat(1, 2)}}

\* The frame of a call of calculate_confidence_from_criteria on entry: the
\* argument, the empty local lists of lines 45-46, and the loop position.
ScoringFrame(answer) ==
    [function |-> "calculate_confidence_from_criteria",
     student_answer |-> answer,
     next_criterion |-> 1,
     matched_criteria |-> <<>>,
     partial_credit_details |-> <<>>,
     pc |-> "call", exception |-> "", returned |-> <<>>]

\* The frame of a call of grade_geometric_accuracy on entry.
GradingFrame(shape) ==
    [function |-> "grade_geometric_accuracy",
     detected_shape |-> shape,
     pc |-> "call", exception |-> "", returned |-> <<>>]

InitialFrames ==
    {ScoringFrame(answer) : answer \in BoundaryAnswers}
    \cup {GradingFrame(shape) : shape \in SharedDetectedShapes}

\* _check_criterion_match reading self.partial_credit_threshold.
MatchWithThreshold(answer, criterion, feedback, threshold) ==
    LET result == check_criterion_match(answer, criterion, feedback)
        partially_matched ==
            RGeq(result.match_percentage, threshold) /\ ~result.fully_matched
    IN  [result EXCEPT
            !.partially_matched = partially_matched,
            !.partial_score =
                PartialScore(partially_matched, result.match_percentage,
                             criterion.marks)]

\* LoopBody with matched_criteria and partial_credit_details kept in one
\* place for every call, the frame of the first call.
LoopBodySharedLists(fs, t, scheme, feedback, threshold) ==
    LET frame == fs[t]
        criterion == scheme[frame.next_criterion]
        match_result ==
            MatchWithThreshold(frame.student_answer, criterion, feedback,
                               threshold)
        advanced == [fs EXCEPT ![t].next_criterion = @ + 1]
    IN  IF fs[1].function # "calculate_confidence_from_criteria"
        THEN advanced
        ELSE IF match_result.fully_matched
        THEN [advanced EXCEPT
                 ![1].matched_criteria = Append(@, criterion)]
        ELSE IF match_result.partially_matched
        THEN [advanced EXCEPT
                 ![1].partial_credit_details =
                     Append(@, [criterion |-> criterion.description,
                                matched |-> TRUE,
                                partial_score |-> match_result.partial_score,
                                explanation |-> match_result.explanation])]
        ELSE advanced

\* One iteration of the loop of lines 49-62 in the call of frame t.
LoopBody(fs, t, scheme, feedback, threshold) ==
    LET frame == fs[t]
        criterion == scheme[frame.next_criterion]
        match_result ==
            MatchWithThreshold(frame.student_answer, criterion, feedback,
                               threshold)
        advanced == [fs EXCEPT ![t].next_criterion = @ + 1]
    IN  IF match_result.fully_matched
        THEN [advanced EXCEPT
                 ![t].matched_criteria = Append(@, criterion)]
        ELSE IF match_result.partially_matched
        THEN [advanced EXCEPT
                 ![t].partial_credit_details =
                     Append(@, [criterion |-> criterion.description,
                                matched |-> TRUE,
                                partial_score |-> match_result.partial_score,
                                explanation |-> match_result.explanation])]
        ELSE advanced

\* Lines 65-86 in the call of a frame: the division, then the breakdown.
AfterLoop(frame, scheme) ==
    LET total_criteria == Len(scheme)
        criteria_matched == Len(frame.matched_criteria)
        partial_credit_score == SumPartialScores(frame.partial_credit_details)
        total_score == TotalScore(criteria_matched, partial_credit_score)
    IN  IF DivisionRaises(total_criteria)
        THEN [frame EXCEPT !.pc = "raised",
                           !.exception = "ZeroDivisionError"]
        ELSE LET confidence_score ==
                     ConfidenceScore(total_score, total_criteria)
             IN  [frame EXCEPT
                     !.pc = "returned",
                     !.returned =
                         <<[criteria_matched |-> criteria_matched,
                            total_criteria |-> total_criteria,
                            confidence_score |-> confidence_score,
                            partial_credit_details |->
                                frame.partial_credit_details,
                            reasoning |->
                                generate_confidence_reasoning(
                                    criteria_matched, total_criteria,
                                    frame.partial_credit_details,
                                    confidence_score)]>>]

Calls == 1..MaxCalls

InitShared ==
    /\ callee = "calls on shared instances"
    /\ pc = "call"
    /\ self_partial_credit_threshold = partial_credit_threshold
    /\ self_grid_spacing = RInt(DefaultGridSpacing)
    /\ mark_scheme \in SharedSchemes
    /\ arg_expected_shape \in SharedExpectedShapes
    /\ frames \in [Calls -> InitialFrames]
    /\ student_answer = <<>>
    /\ llm_feedback = <<>>
    /\ match_results = <<>>
    /\ returned = <<>>
    /\ exception = ""
    /\ IdleCombine
    /\ IdleBoundary
    /\ marking_results = <<>>
    /\ arg_expected_answer = <<>>
    /\ embedding_similarity = <<>>
    /\ arg_geometric_accuracy = <<>>
    /\ arg_detected_shape = <<>>
    /\ arg_image = <<>>
    /\ output_file = <<>>
    /\ args = <<>>

\* Everything but the frames: the instances, the shared inputs and the rest.
sharedVars ==
    <<callee, pc, returned, exception, criteriaVars, combineVars, boundaryVars,
      marking_results, arg_expected_answer, embedding_similarity,
      arg_geometric_accuracy, arg_detected_shape, arg_expected_shape,
      self_grid_spacing, arg_image, self_partial_credit_threshold,
      output_file, args>>

\* The call of frame t checks its next criterion.
check_next_criterion(t) ==
    /\ callee = "calls on shared instances"
    /\ frames[t].function = "calculate_confidence_from_criteria"
    /\ frames[t].pc = "call"
    /\ frames[t].next_criterion <= Len(mark_scheme)
    /\ frames' = LoopBody(frames, t, mark_scheme, llm_feedback,
                          self_partial_credit_threshold)
    /\ UNCHANGED sharedVars

\* The call of frame t leaves its loop and returns or raises.
return_confidence(t) ==
    /\ callee = "calls on shared instances"
    /\ frames[t].function = "calculate_confidence_from_criteria"
    /\ frames[t].pc = "call"
    /\ frames[t].next_criterion > Len(mark_scheme)
    /\ frames' = [frames EXCEPT ![t] = AfterLoop(frames[t], mark_scheme)]
    /\ UNCHANGED sharedVars

\* The call of frame t grades its shape against the shared expected shape.
grade_shape(t) ==
    /\ callee = "calls on shared instances"
    /\ frames[t].function = "grade_geometric_accuracy"
    /\ frames[t].pc = "call"
    /\ LET out == GradeOutcome(frames[t].detected_shape, arg_expected_shape,
                               self_grid_spacing)
       IN  frames' = [frames EXCEPT ![t].pc = out.pc,
                                    ![t].exception = out.exception,
                                    ![t].returned = out.returned]
    /\ UNCHANGED sharedVars

NextShared ==
    \E t \in Calls :
        \/ check_next_criterion(t)
        \/ return_confidence(t)
        \/ grade_shape(t)

SpecShared == InitShared /\ [][NextShared]_vars

\* What the call of a frame does when it runs alone on a fresh instance.
AloneOutcome(frame) ==
    IF frame.function = "calculate_confidence_from_criteria"
    THEN CallOutcome(frame.student_answer, mark_scheme, llm_feedback)
    ELSE GradeOutcome(frame.detected_shape, arg_expected_shape,
                      <<DefaultGridSpacing, 1>>)

\* Every call that has ended, ended as it does alone.
EndedAsAlone ==
    \A t \in Calls :
        frames[t].pc # "call"
        => /\ frames[t].pc = AloneOutcome(frames[t]).pc
           /\ frames[t].exception = AloneOutcome(frames[t]).exception
           /\ frames[t].returned = AloneOutcome(frames[t]).returned

\* No step changes the instances or the shared inputs.
SharedUntouched ==
    /\ self_partial_credit_threshold' = self_partial_credit_threshold
    /\ self_grid_spacing' = self_grid_spacing
    /\ mark_scheme' = mark_scheme
    /\ arg_expected_shape' = arg_expected_shape
    /\ \A t \in Calls :
          /\ frames'[t].function = frames[t].function
          /\ frames[t].function = "calculate_confidence_from_criteria"
                => frames'[t].student_answer = frames[t].student_answer
          /\ frames[t].function = "grade_geometric_accuracy"
                => frames'[t].detected_shape = frames[t].detected_shape

\* C21: scoring and grading calls share no mutable state: through any
\* interleaving of calls on one ConfidenceScorer and one VisualMarker,
\* partial_credit_threshold stays 0.6, the Criterion and expected-shape
\* inputs are not modified, and each call ends with the result it gives
\* when run alone on a fresh instance.
C21_CallsShareNoMutableState ==
    /\ [](callee = "calls on shared instances"
            => /\ self_partial_credit_threshold = Rat(6, 10)
               /\ EndedAsAlone)
    /\ [][callee = "calls on shared instances" => SharedUntouched]_vars

\* Two scoring calls with different answers on a scheme of two criteria:
\* the second has returned, with partial credit, while the first is
\* between its two criteria.
C21_Witness ==
    /\ callee = "calls on shared instances"
    /\ Len(mark_scheme) = 2
    /\ frames[1].function = "calculate_confidence_from_criteria"
    /\ frames[2].function = "calculate_confidence_from_criteria"
    /\ frames[1].student_answer # frames[2].student_answer
    /\ frames[1].pc = "call"
    /\ frames[1].next_criterion = 2
    /\ frames[2].pc = "returned"
    /\ frames[2].returned[1].partial_credit_details # <<>>

\* A scoring call and a grading call have both ended.
C21_WitnessBothKinds ==
    /\ callee = "calls on shared instances"
    /\ frames[1].function = "calculate_confidence_from_criteria"
    /\ frames[2].function = "grade_geometric_accuracy"
    /\ frames[1].pc = "returned"
    /\ frames[2].pc = "returned"

----------------------------------------------------------------------------
(* python_integration.py: main, from the parsed command line to the end.   *)

\* The command line with a valid --mode: whether an input is given, where
\* --output-file points (if given), and the stream sys.stdout is: the
\* interpreter's io.TextIOWrapper, or an io.StringIO put in its place by
\* an in-process caller.
MainArgs ==
    [input_given : BOOLEAN,
     output_file : {"", "writable path", "unwritable path"},
     sys_stdout : {"TextIOWrapper", "StringIO"}]

\* The object printed when neither --input-file nor --input-data is given.
MissingInputOutput ==
    [success |-> FALSE,
     error |-> "Either --input-file or --input-data must be provided"]

\* The object the mode function prints.
ModeOutput(m, req) ==
    CASE m = "confidence" -> ConfidenceOutput(req)
      [] m = "visual" -> VisualOutput(req)
      [] m = "agreement" -> AgreementOutput(req)

\* The first exception raised inside the mode function, "" if none.
ModeFailure(m, req) ==
    CASE m = "confidence" -> ConfidenceFailure(req)
      [] m = "visual" -> VisualRaised(req)
      [] m = "agreement" -> AgreementFailure(req)

\* What sys.stdout.getvalue() does on line 184.
GetValueRaises(sys_stdout) == sys_stdout # "StringIO"

\* What main leaves on stdout: the validation error of lines 166-171, or
\* the object the mode function prints.
MainPrinted(m, a, req) ==
    IF ~a.input_given THEN <<MissingInputOutput>> ELSE <<ModeOutput(m, req)>>

\* The exception the mode function caught, when main ran it.
MainFailure(m, a, req) ==
    IF ~a.input_given THEN "" ELSE ModeFailure(m, req)

\* How main ends once `printed` is on stdout: sys.exit(1) of line 171, or
\* lines 182-184, where open() creates the file before getvalue() is called.
MainOutcome(a, printed) ==
    IF ~a.input_given
    THEN [pc |-> "raised", exception |-> "SystemExit", output_file |-> <<>>]
    ELSE IF a.output_file = ""
    THEN [pc |-> "returned", exception |-> "", output_file |-> <<>>]
    ELSE IF a.output_file = "unwritable path"
    THEN [pc |-> "raised", exception |-> "OSError", output_file |-> <<>>]
    ELSE IF GetValueRaises(a.sys_stdout)
    THEN [pc |-> "raised", exception |-> "AttributeError",
          output_file |-> <<(<<>>)>>]
    ELSE [pc |-> "returned", exception |-> "", output_file |-> <<printed>>]

\* The requests main is run on: those of each mode with at most one
\* criterion, one marking result or one detected shape, and the expected
\* triangle or no expected answer.
MainRequests(m) ==
    {req \in Requests(m) :
        CASE m = "confidence" -> Len(Get(req.data, "mark_scheme", <<>>)) <= 1
          [] m = "agreement" ->
                Len(Get(req.data, "marking_results", <<>>)) <= 1
          [] m = "visual" ->
                /\ Len(req.image.shapes) <= 1
                /\ Get(req.data, "expected_answer", ExpectedTriangle)
                      = ExpectedTriangle}

InitMain ==
    /\ callee = "main"
    /\ pc = "call"
    /\ mode \in Modes
    /\ request \in MainRequests(mode)
    /\ args \in MainArgs
    /\ stdout = <<>>
    /\ failure = ""
    /\ returned = <<>>
    /\ exception = ""
    /\ IdleCriteria
    /\ IdleCombine
    /\ marking_results = <<>>
    /\ arg_expected_answer = <<>>
    /\ embedding_similarity = <<>>
    /\ arg_geometric_accuracy = <<>>
    /\ arg_detected_shape = <<>>
    /\ arg_expected_shape = <<>>
    /\ self_grid_spacing = <<>>
    /\ arg_image = <<>>
    /\ self_partial_credit_threshold = partial_credit_threshold
    /\ frames = <<>>
    /\ output_file = <<>>

main ==
    /\ callee = "main"
    /\ pc = "call"
    /\ stdout' = MainPrinted(mode, args, request)
    /\ failure' = MainFailure(mode, args, request)
    /\ LET out == MainOutcome(args, stdout')
       IN  /\ pc' = out.pc
           /\ exception' = out.exception
           /\ output_file' = out.output_file
    /\ UNCHANGED <<callee, mode, request, returned, criteriaVars, combineVars,
                   marking_results, arg_expected_answer, embedding_similarity,
                   arg_geometric_accuracy, arg_detected_shape,
                   arg_expected_shape, self_grid_spacing, arg_image,
                   self_partial_credit_threshold, frames, args>>

NextMain == main

SpecMain == InitMain /\ [][NextMain]_vars

\* C30: when main is invoked with --output-file (a path that can be
\* written) and an input that the mode processes without error, then after
\* the mode has run and printed its JSON output, main has written that same
\* output to the file and ends normally, raising nothing.
C30_OutputFileWritten ==
    (/\ callee = "main"
     /\ args # <<>>
     /\ pc # "call"
     /\ args.input_given
     /\ args.output_file = "writable path"
     /\ failure = "")
    => /\ pc = "returned"
       /\ exception = ""
       /\ Len(stdout) = 1
       /\ output_file = <<stdout>>

====
